---- MODULE Spec2Model ----
(***************************************************************************)
(* Model of labs/m05_concurrency/src/spsc_ring_bench.cpp: the SpscRing     *)
(* single-producer/single-consumer ring buffer, its deliberately faulty    *)
(* relaxed twin BadRing, and the compile-time checks of SpscRing.          *)
(*                                                                         *)
(* Memory model.  head.v and tail.v are std::atomic<size_t>.  Each is      *)
(* modelled by its modification order: a sequence of messages, one per     *)
(* store, the constructor's zero first.  A thread has, per index it does   *)
(* not own, a coherence view ("seen": the position of the newest message   *)
(* it has read) and a happens-before clock ("knows": the newest release    *)
(* message it has read with an acquire load).  A load may return any       *)
(* message from the thread's view onwards (a stale value is allowed),      *)
(* never an older one.  The slots of buf are plain memory: every access    *)
(* is stamped with the epoch of its thread, and two conflicting accesses   *)
(* of a slot race when the later one does not know the epoch of the        *)
(* earlier one.                                                            *)
(***************************************************************************)
EXTENDS Integers, Sequences, FiniteSets, TLC

\* ---------------------------------------------------------------- bounds
MaxCapLog2 == 2          \* rings of capacity 2^1 .. 2^MaxCapLog2
MaxPush    == 5          \* accepted pushes per run of SpscRing
MaxPushBad == 3          \* accepted pushes per run of BadRing
MaxVal     == 2          \* payload values 1..MaxVal (0 is the zeroed slot)
SizeBits   == 6          \* modelled width of std::size_t

\* ---------------------------------------------------------------- helpers
Pow2(n) == 2 ^ n

Max(a, b) == IF a >= b THEN a ELSE b

\* a & b on naturals
RECURSIVE BitAnd(_, _)
BitAnd(a, b) ==
  IF a = 0 \/ b = 0 THEN 0
  ELSE 2 * BitAnd(a \div 2, b \div 2) + (IF a % 2 = 1 /\ b % 2 = 1 THEN 1 ELSE 0)

\* a - b in std::size_t (wraps below zero)
SizeSub(a, b) == (a - b + Pow2(SizeBits)) % Pow2(SizeBits)

Last(s) == s[Len(s)]

Values == 1 .. MaxVal

Capacities == { Pow2(k) : k \in 1 .. MaxCapLog2 }

\* accepted pushes after which the producer of ring r makes no new call
PushBound(r) == IF r = "BadRing" THEN MaxPushBad ELSE MaxPush

\* ---------------------------------------------------------------- state
VARIABLES
  ring,        \* "SpscRing" or "BadRing": which struct the run is about
  Capacity,    \* the template parameter CapacityPow2 (1u << 12 in BadRing)
  headMsgs,    \* modification order of head.v: messages [val, rel]
  tailMsgs,    \* modification order of tail.v
  buf,         \* the slots, 0 .. Capacity-1
  pPc, pX, pH, pT, pNext, pRes,   \* producer: position, argument, locals, result
  pSeenTail, pKnowsC,             \* producer's view and clock of tail.v
  cPc, cT, cH, cOut, cRes,        \* consumer: position, locals, out, result
  cSeenHead, cKnowsP,             \* consumer's view and clock of head.v
  wEpoch,      \* per slot: producer epoch of the last write
  rEpoch,      \* per slot: consumer epoch of the last read
  race,        \* a data race on a slot has happened
  pushedSeq,   \* values accepted by try_push, in order
  poppedSeq,   \* values returned by try_pop, in order
  cand, trivial, built,           \* static_assert: capacity, is T trivially copyable, outcome
  pmPc, pmXs, pmN, pushed, pmRet, \* push_many: position, xs, n, pushed, return value
  pmAt,        \* the ring as it was when push_many was called
  qmPc, qmXs, qmN, popped, qmRet, \* pop_many: position, xs, n, popped, return value
  qmAt,        \* the ring as it was when pop_many was called
  bench,       \* the sharded run: "PaddedCounter", "SharedSlot" or "PaddedSlot"
  threads, iters_per_thread,      \* its arguments
  slots,       \* shards[t].v / slots[t].c, t in 0 .. threads-1
  wPc, wI, wTmp,                  \* per worker: position, i, the value read by += 1
  mPc, mT, sum, joined,           \* main thread: position, loop index, sum, joined threads
  touched,     \* per slot: the threads that have read or written it
  CLS, slotType,                  \* cache-line size of the build, struct laid out
  lyPc, sizeofSlot, alignofSlot,  \* layout: position, sizeof, alignof
  nslots, data,                   \* vector<Slot>: size(), address of data()
  shared,      \* BM_SharedAtomicCounter: modification order of the counter
  wView, mView,                   \* per worker and main: newest store known
  loaded,      \* the value shared.load() returned after the joins
  build,       \* atomic_order_demo: the build, "relaxed", "acq_rel" or "seq_cst"
  flag,        \* modification order of flag: messages [val, rel]
  demoData,    \* the global int data
  dataBy,      \* the thread that wrote data last
  wrPc, wStoreAt,                 \* writer: position, index of its store in flag
  rdPc, rdX, rSeen, rKnows,       \* reader: position, x, view and clock of flag
  mnPc, demoI, mismatches, out,   \* main: position, i, mismatches, count printed
  demoRace,    \* the reader's read of data raced with the writer's write
  qPc, qX, qH, qT, qNext, qRes,   \* two threads in try_push: position, argument, locals, result
  qSeenHead,   \* per thread: its view of head.v
  qAcc,        \* the try_push calls that returned true: [by, val, slot]
  lastWriter,  \* per slot: the thread that wrote it last, 0 if none
  hStart,      \* the benchmark's start flag
  count,       \* items: the count given to producer and consumer
  hpPc, hpI, hpK,                 \* producer(): position, i, k
  hcPc, hcI, hcK, hcSum,          \* consumer(): position, i, k, sum
  checksum     \* the benchmark's checksum, written through *checksum

ringVars  == <<ring, Capacity, headMsgs, tailMsgs, buf>>
prodVars  == <<pPc, pX, pH, pT, pNext, pRes, pSeenTail, pKnowsC>>
consVars  == <<cPc, cT, cH, cOut, cRes, cSeenHead, cKnowsP>>
ghostVars == <<wEpoch, rEpoch, race, pushedSeq, poppedSeq>>
ctorVars  == <<cand, trivial, built>>
batchVars == <<pmPc, pmXs, pmN, pushed, pmRet, pmAt,
               qmPc, qmXs, qmN, popped, qmRet, qmAt>>
shardVars == <<bench, threads, iters_per_thread, slots, wPc, wI, wTmp,
               mPc, mT, sum, joined, touched>>
layoutVars == <<CLS, slotType, lyPc, sizeofSlot, alignofSlot, nslots, data>>
atomicVars == <<shared, wView, mView, loaded>>
\* the programs that use neither a ring nor a slot vector
demoVars == <<build, flag, demoData, dataBy, wrPc, wStoreAt, rdPc, rdX, rSeen,
              rKnows, mnPc, demoI, mismatches, out, demoRace>>
twoVars == <<qPc, qX, qH, qT, qNext, qRes, qSeenHead, qAcc, lastWriter>>
harnessVars == <<hStart, count, hpPc, hpI, hpK, hcPc, hcI, hcK, hcSum, checksum>>
laterVars == <<atomicVars, demoVars, twoVars, harnessVars>>
\* what a sharded counter run leaves alone
nonShardVars == <<ringVars, prodVars, consVars, ghostVars, ctorVars, batchVars,
                  layoutVars, laterVars>>
\* what laying out a slot struct leaves alone
nonLayoutVars == <<ringVars, prodVars, consVars, ghostVars, ctorVars, batchVars,
                   shardVars, laterVars>>
\* what the ring's member functions leave alone
otherVars == <<ctorVars, shardVars, layoutVars, laterVars>>
\* what the steps of try_push and try_pop leave alone
restVars  == <<otherVars, batchVars>>
vars == <<ringVars, prodVars, consVars, ghostVars, ctorVars, batchVars,
          shardVars, layoutVars, laterVars>>

\* ------------------------------------------------- std::atomic<size_t>
\* SpscRingOrder with the consumer's load of head relaxed
SpscRingOrder_relaxed_head_load ==
  [ push_head_load  |-> "relaxed", push_tail_load |-> "acquire",
    push_head_store |-> "release",
    pop_tail_load   |-> "relaxed", pop_head_load  |-> "relaxed",
    pop_tail_store  |-> "release" ]

\* SpscRingOrder with the consumer's store of tail relaxed
SpscRingOrder_relaxed_tail_store ==
  [ push_head_load  |-> "relaxed", push_tail_load |-> "acquire",
    push_head_store |-> "release",
    pop_tail_load   |-> "relaxed", pop_head_load  |-> "acquire",
    pop_tail_store  |-> "relaxed" ]

\* memory orders of the six index accesses of SpscRing
SpscRingOrder ==
  [ push_head_load  |-> "relaxed", push_tail_load |-> "acquire",
    push_head_store |-> "release",
    pop_tail_load   |-> "relaxed", pop_head_load  |-> "acquire",
    pop_tail_store  |-> "release" ]

\* BadRingOrder repaired: the orders of SpscRing
BadRingOrder_acqrel ==
  [ push_head_load  |-> "relaxed", push_tail_load |-> "acquire",
    push_head_store |-> "release",
    pop_tail_load   |-> "relaxed", pop_head_load  |-> "acquire",
    pop_tail_store  |-> "release" ]

\* memory orders of the six index accesses of BadRing
BadRingOrder ==
  [ push_head_load  |-> "relaxed", push_tail_load |-> "relaxed",
    push_head_store |-> "relaxed",
    pop_tail_load   |-> "relaxed", pop_head_load  |-> "relaxed",
    pop_tail_store  |-> "relaxed" ]

IsAcquire(order) == order \in {"acquire", "acq_rel", "seq_cst"}
IsRelease(order) == order \in {"release", "acq_rel", "seq_cst"}

\* v{0}: the index as constructed
IndexInit == << [val |-> 0, rel |-> TRUE] >>

\* the owner of an index reads back its own latest store
LoadOwn(msgs) == Last(msgs).val

\* a load that may return a value older than one the thread has read
Load_incoherent(msgs, seen, knows, order) ==
  { [ val   |-> msgs[i].val,
      seen  |-> i,
      knows |-> IF IsAcquire(order) /\ msgs[i].rel THEN Max(knows, i) ELSE knows ]
    : i \in 1 .. Len(msgs) }

\* the outcomes of a load by the thread that does not own the index
Load(msgs, seen, knows, order) ==
  { [ val   |-> msgs[i].val,
      seen  |-> i,
      knows |-> IF IsAcquire(order) /\ msgs[i].rel THEN Max(knows, i) ELSE knows ]
    : i \in seen .. Len(msgs) }

\* a store by the owner of the index
Store(msgs, v, order) == Append(msgs, [val |-> v, rel |-> IsRelease(order)])

\* the stored value of an index: the newest in modification order
Stored(msgs) == Last(msgs).val

head == Stored(headMsgs)
tail == Stored(tailMsgs)

\* the mask of a ring of half the capacity
mask_half == (Capacity \div 2) - 1

\* static constexpr std::size_t mask = CapacityPow2 - 1;
mask == Capacity - 1

\* the index advanced without the mask
next_index_nowrap(i) == i + 1

\* const std::size_t next = (h + 1) & mask;   (try_push, try_pop)
next_index(i) == BitAnd(i + 1, mask)

\* the full check left out
push_full_never(next, t) == FALSE

\* the full check refusing one slot too early
push_full_early(next, t) == next = t \/ BitAnd(next + 1, mask) = t

\* if (next == t)   the full check of try_push
push_full(next, t) == next = t

\* the emptiness check inverted
pop_empty_inverted(t, h) == t # h

\* if (t == h)   the emptiness check of try_pop
pop_empty(t, h) == t = h

\* ------------------------------------------------- slots (plain memory)
\* epoch of the producer's (consumer's) current slot access: it is covered
\* by the next head (tail) store
pEpoch == Len(headMsgs) + 1
cEpoch == Len(tailMsgs) + 1

\* the consumer reads slot s without the last write happening-before
ReadRaces(s)  == wEpoch[s] > cKnowsP
\* the producer writes slot s without the last read happening-before
WriteRaces(s) == rEpoch[s] > pKnowsC

\* what a read of slot s can return: the slot's value, anything if it races
ReadSlot(s) == IF ReadRaces(s) THEN 0 .. MaxVal ELSE { buf[s] }

\* ---------------------------------------------------------------- Init
\* what pop_many's caller has in xs before the call: no value of a push
OutFill == 0 - 1

\* the ring as a batch call finds it
RingAt == [ pushes |-> Len(pushedSeq), pops |-> Len(poppedSeq),
            heads |-> Len(headMsgs), tails |-> Len(tailMsgs),
            current |-> FALSE, tries |-> 0 ]

\* the record of a thread that is in no batch call
NoCall == [ pushes |-> 0, pops |-> 0, heads |-> 1, tails |-> 1,
            current |-> FALSE, tries |-> 0 ]

\* no push_many or pop_many call made yet
BatchIdle ==
  /\ pmPc = "idle" /\ pmXs = << >> /\ pmN = 0 /\ pushed = 0 /\ pmRet = 0
  /\ qmPc = "idle" /\ qmXs = << >> /\ qmN = 0 /\ popped = 0 /\ qmRet = 0
  /\ pmAt = NoCall /\ qmAt = NoCall

\* no sharded counter run started
ShardIdle ==
  /\ bench = "none" /\ threads = 0 /\ iters_per_thread = 0
  /\ slots = << >> /\ wPc = << >> /\ wI = << >> /\ wTmp = << >>
  /\ mPc = "none" /\ mT = 0 /\ sum = 0 /\ joined = {}
  /\ touched = << >>

\* no slot struct under consideration
LayoutIdle ==
  /\ CLS = 0 /\ slotType = "none" /\ lyPc = "none"
  /\ sizeofSlot = 0 /\ alignofSlot = 0 /\ nslots = 0 /\ data = 0

\* no shared atomic counter run started
AtomicIdle ==
  /\ shared = << >> /\ wView = << >> /\ mView = 0 /\ loaded = 0

\* none of the programs without a ring or a slot vector started
\* atomic_order_demo not started
DemoIdle ==
  /\ build = "none" /\ flag = << >> /\ demoData = 0 /\ dataBy = "none"
  /\ wrPc = "none" /\ wStoreAt = 0
  /\ rdPc = "none" /\ rdX = 0 /\ rSeen = 0 /\ rKnows = 0
  /\ mnPc = "none" /\ demoI = 0 /\ mismatches = 0 /\ out = 0
  /\ demoRace = FALSE

\* no second thread calling try_push
TwoIdle ==
  /\ qPc = << >> /\ qX = << >> /\ qH = << >> /\ qT = << >> /\ qNext = << >>
  /\ qRes = << >> /\ qSeenHead = << >> /\ qAcc = << >> /\ lastWriter = << >>

\* BM_SPSC_Ring_Throughput not running
HarnessIdle ==
  /\ hStart = FALSE /\ count = 0
  /\ hpPc = "none" /\ hpI = 0 /\ hpK = 0
  /\ hcPc = "none" /\ hcI = 0 /\ hcK = 0 /\ hcSum = 0
  /\ checksum = 0

LaterIdle ==
  /\ AtomicIdle
  /\ DemoIdle
  /\ TwoIdle
  /\ HarnessIdle

\* Ring rb{}: zeroed indices, zeroed slots; no call made yet
RingFresh(r, C) ==
  /\ ring = r
  /\ Capacity = C
  /\ headMsgs = IndexInit
  /\ tailMsgs = IndexInit
  /\ buf = [s \in 0 .. C - 1 |-> 0]
  /\ pPc = "idle" /\ pX = 0 /\ pH = 0 /\ pT = 0 /\ pNext = 0 /\ pRes = FALSE
  /\ pSeenTail = 1 /\ pKnowsC = 1
  /\ cPc = "idle" /\ cT = 0 /\ cH = 0 /\ cOut = 0 /\ cRes = FALSE
  /\ cSeenHead = 1 /\ cKnowsP = 1
  /\ wEpoch = [s \in 0 .. C - 1 |-> 1]
  /\ rEpoch = [s \in 0 .. C - 1 |-> 1]
  /\ race = FALSE
  /\ pushedSeq = << >>
  /\ poppedSeq = << >>

InitRing(r) ==
  \E C \in Capacities :
    /\ RingFresh(r, C)
    /\ cand = C /\ trivial = TRUE /\ built = "accepted"
    /\ BatchIdle
    /\ ShardIdle
    /\ LayoutIdle
    /\ LaterIdle

Init == InitRing("SpscRing")

\* ------------------------------------------------- SpscRing::try_push
\* the producer thread calls rb->try_push(x)
producer_call ==
  /\ pPc = "idle"
  /\ Len(pushedSeq) < PushBound(ring)
  /\ \E x \in Values : pX' = x
  /\ pPc' = "load_head"
  /\ UNCHANGED <<pH, pT, pNext, pRes, pSeenTail, pKnowsC>>
  /\ UNCHANGED <<ringVars, consVars, ghostVars, restVars>>

\* the producer thread makes no further call
producer_stop ==
  /\ pPc = "idle"
  /\ pPc' = "stopped"
  /\ UNCHANGED <<pX, pH, pT, pNext, pRes, pSeenTail, pKnowsC>>
  /\ UNCHANGED <<ringVars, consVars, ghostVars, restVars>>

\* const std::size_t h = head.v.load(std::memory_order_relaxed);
try_push_load_head ==
  /\ ring = "SpscRing"
  /\ pPc = "load_head"
  /\ pH' = LoadOwn(headMsgs)
  /\ pPc' = "load_tail"
  /\ UNCHANGED <<pX, pT, pNext, pRes, pSeenTail, pKnowsC>>
  /\ UNCHANGED <<ringVars, consVars, ghostVars, restVars>>

\* const std::size_t t = tail.v.load(std::memory_order_acquire);
\* const std::size_t next = (h + 1) & mask;
try_push_load_tail ==
  /\ ring = "SpscRing"
  /\ pPc = "load_tail"
  /\ \E m \in Load(tailMsgs, pSeenTail, pKnowsC, SpscRingOrder.push_tail_load) :
       /\ pT' = m.val
       /\ pSeenTail' = m.seen
       /\ pKnowsC' = m.knows
  /\ pNext' = next_index(pH)
  /\ pPc' = "check"
  /\ UNCHANGED <<pX, pH, pRes>>
  /\ UNCHANGED <<ringVars, consVars, ghostVars, restVars>>

\* try_push waiting for room instead of returning false
try_push_full_spin ==
  /\ ring = "SpscRing"
  /\ pPc = "check"
  /\ push_full(pNext, pT)
  /\ pPc' = "load_head"
  /\ UNCHANGED <<pX, pH, pT, pNext, pRes, pSeenTail, pKnowsC>>
  /\ UNCHANGED <<ringVars, consVars, ghostVars, restVars>>

\* if (next == t) return false;
try_push_full ==
  /\ ring = "SpscRing"
  /\ pPc = "check"
  /\ push_full(pNext, pT)
  /\ pRes' = FALSE
  /\ pPc' = "idle"
  /\ pX' = 0 /\ pH' = 0 /\ pT' = 0 /\ pNext' = 0
  /\ UNCHANGED <<pSeenTail, pKnowsC>>
  /\ UNCHANGED <<ringVars, consVars, ghostVars, restVars>>

\* try_push writing the element to the slot after the one it publishes
try_push_write_buf_next ==
  /\ ring = "SpscRing"
  /\ pPc = "check"
  /\ ~push_full(pNext, pT)
  /\ buf' = [buf EXCEPT ![pNext] = pX]
  /\ wEpoch' = [wEpoch EXCEPT ![pNext] = pEpoch]
  /\ race' = (race \/ WriteRaces(pNext))
  /\ pPc' = "publish"
  /\ UNCHANGED <<pX, pH, pT, pNext, pRes, pSeenTail, pKnowsC>>
  /\ UNCHANGED <<ring, Capacity, headMsgs, tailMsgs>>
  /\ UNCHANGED <<rEpoch, pushedSeq, poppedSeq>>
  /\ UNCHANGED <<consVars, restVars>>

\* buf[h] = x;
try_push_write_buf ==
  /\ ring = "SpscRing"
  /\ pPc = "check"
  /\ ~push_full(pNext, pT)
  /\ buf' = [buf EXCEPT ![pH] = pX]
  /\ wEpoch' = [wEpoch EXCEPT ![pH] = pEpoch]
  /\ race' = (race \/ WriteRaces(pH))
  /\ pPc' = "publish"
  /\ UNCHANGED <<pX, pH, pT, pNext, pRes, pSeenTail, pKnowsC>>
  /\ UNCHANGED <<ring, Capacity, headMsgs, tailMsgs>>
  /\ UNCHANGED <<rEpoch, pushedSeq, poppedSeq>>
  /\ UNCHANGED <<consVars, restVars>>

\* try_push publishing head once per push_many batch, with its last element
try_push_store_head_batched ==
  /\ ring = "SpscRing"
  /\ pPc = "publish"
  /\ headMsgs' = IF pmPc = "try" /\ pushed + 1 < pmN
                 THEN headMsgs
                 ELSE Store(headMsgs, pNext, SpscRingOrder.push_head_store)
  /\ pushedSeq' = Append(pushedSeq, pX)
  /\ pRes' = TRUE
  /\ pPc' = "idle"
  /\ pX' = 0 /\ pH' = 0 /\ pT' = 0 /\ pNext' = 0
  /\ UNCHANGED <<pSeenTail, pKnowsC>>
  /\ UNCHANGED <<ring, Capacity, tailMsgs, buf>>
  /\ UNCHANGED <<wEpoch, rEpoch, race, poppedSeq>>
  /\ UNCHANGED <<consVars, restVars>>

\* head.v.store(next, std::memory_order_release); return true;
try_push_store_head ==
  /\ ring = "SpscRing"
  /\ pPc = "publish"
  /\ headMsgs' = Store(headMsgs, pNext, SpscRingOrder.push_head_store)
  /\ pushedSeq' = Append(pushedSeq, pX)
  /\ pRes' = TRUE
  /\ pPc' = "idle"
  /\ pX' = 0 /\ pH' = 0 /\ pT' = 0 /\ pNext' = 0
  /\ UNCHANGED <<pSeenTail, pKnowsC>>
  /\ UNCHANGED <<ring, Capacity, tailMsgs, buf>>
  /\ UNCHANGED <<wEpoch, rEpoch, race, poppedSeq>>
  /\ UNCHANGED <<consVars, restVars>>

\* ------------------------------------------------- SpscRing::try_pop
\* the consumer thread calls rb->try_pop(val)
consumer_call ==
  /\ cPc = "idle"
  /\ cPc' = "load_tail"
  /\ UNCHANGED <<cT, cH, cOut, cRes, cSeenHead, cKnowsP>>
  /\ UNCHANGED <<ringVars, prodVars, ghostVars, restVars>>

\* the consumer thread makes no further call
consumer_stop ==
  /\ cPc = "idle"
  /\ cPc' = "stopped"
  /\ UNCHANGED <<cT, cH, cOut, cRes, cSeenHead, cKnowsP>>
  /\ UNCHANGED <<ringVars, prodVars, ghostVars, restVars>>

\* const std::size_t t = tail.v.load(std::memory_order_relaxed);
try_pop_load_tail ==
  /\ ring = "SpscRing"
  /\ cPc = "load_tail"
  /\ cT' = LoadOwn(tailMsgs)
  /\ cPc' = "load_head"
  /\ UNCHANGED <<cH, cOut, cRes, cSeenHead, cKnowsP>>
  /\ UNCHANGED <<ringVars, prodVars, ghostVars, restVars>>

\* const std::size_t h = head.v.load(std::memory_order_acquire);
try_pop_load_head ==
  /\ ring = "SpscRing"
  /\ cPc = "load_head"
  /\ \E m \in Load(headMsgs, cSeenHead, cKnowsP, SpscRingOrder.pop_head_load) :
       /\ cH' = m.val
       /\ cSeenHead' = m.seen
       /\ cKnowsP' = m.knows
  /\ cPc' = "check"
  /\ UNCHANGED <<cT, cOut, cRes>>
  /\ UNCHANGED <<ringVars, prodVars, ghostVars, restVars>>

\* try_pop copying the slot to out before its emptiness check
try_pop_empty_clobber ==
  /\ ring = "SpscRing"
  /\ cPc = "check"
  /\ pop_empty(cT, cH)
  /\ cOut' = buf[cT]
  /\ cRes' = FALSE
  /\ cPc' = "idle"
  /\ cT' = 0 /\ cH' = 0
  /\ UNCHANGED <<cSeenHead, cKnowsP>>
  /\ UNCHANGED <<ringVars, prodVars, ghostVars, restVars>>

\* if (t == h) return false;
try_pop_empty ==
  /\ ring = "SpscRing"
  /\ cPc = "check"
  /\ pop_empty(cT, cH)
  /\ cRes' = FALSE
  /\ cPc' = "idle"
  /\ cT' = 0 /\ cH' = 0
  /\ UNCHANGED <<cOut, cSeenHead, cKnowsP>>
  /\ UNCHANGED <<ringVars, prodVars, ghostVars, restVars>>

\* try_pop zeroing the slot it has copied out
try_pop_read_buf_clear ==
  /\ ring = "SpscRing"
  /\ cPc = "check"
  /\ ~pop_empty(cT, cH)
  /\ cOut' \in ReadSlot(cT)
  /\ buf' = [buf EXCEPT ![cT] = 0]
  /\ rEpoch' = [rEpoch EXCEPT ![cT] = cEpoch]
  /\ race' = (race \/ ReadRaces(cT))
  /\ cPc' = "retire"
  /\ UNCHANGED <<cT, cH, cRes, cSeenHead, cKnowsP>>
  /\ UNCHANGED <<wEpoch, pushedSeq, poppedSeq>>
  /\ UNCHANGED <<ring, Capacity, headMsgs, tailMsgs>>
  /\ UNCHANGED <<prodVars, restVars>>

\* out = buf[t];
try_pop_read_buf ==
  /\ ring = "SpscRing"
  /\ cPc = "check"
  /\ ~pop_empty(cT, cH)
  /\ cOut' \in ReadSlot(cT)
  /\ rEpoch' = [rEpoch EXCEPT ![cT] = cEpoch]
  /\ race' = (race \/ ReadRaces(cT))
  /\ cPc' = "retire"
  /\ UNCHANGED <<cT, cH, cRes, cSeenHead, cKnowsP>>
  /\ UNCHANGED <<wEpoch, pushedSeq, poppedSeq>>
  /\ UNCHANGED <<ringVars, prodVars, restVars>>

\* const std::size_t next = (t + 1) & mask;
\* tail.v.store(next, std::memory_order_release); return true;
try_pop_store_tail ==
  /\ ring = "SpscRing"
  /\ cPc = "retire"
  /\ tailMsgs' = Store(tailMsgs, next_index(cT), SpscRingOrder.pop_tail_store)
  /\ poppedSeq' = Append(poppedSeq, cOut)
  /\ cRes' = TRUE
  /\ cPc' = "idle"
  /\ cT' = 0 /\ cH' = 0
  /\ UNCHANGED <<cOut, cSeenHead, cKnowsP>>
  /\ UNCHANGED <<ring, Capacity, headMsgs, buf>>
  /\ UNCHANGED <<wEpoch, rEpoch, race, pushedSeq>>
  /\ UNCHANGED <<prodVars, restVars>>

ProducerStep ==
  \/ try_push_load_head
  \/ try_push_load_tail
  \/ try_push_full
  \/ try_push_write_buf
  \/ try_push_store_head

ConsumerStep ==
  \/ try_pop_load_tail
  \/ try_pop_load_head
  \/ try_pop_empty
  \/ try_pop_read_buf
  \/ try_pop_store_tail

Next ==
  \/ producer_call
  \/ producer_stop
  \/ try_push_load_head
  \/ try_push_load_tail
  \/ try_push_full
  \/ try_push_write_buf
  \/ try_push_store_head
  \/ consumer_call
  \/ consumer_stop
  \/ try_pop_load_tail
  \/ try_pop_load_head
  \/ try_pop_empty
  \/ try_pop_read_buf
  \/ try_pop_store_tail

Spec == Init /\ [][Next]_vars

\* ------------------------------------------------- BadRing::try_push
\* const auto h = head.v.load(std::memory_order_relaxed);
Bad_try_push_load_head ==
  /\ ring = "BadRing"
  /\ pPc = "load_head"
  /\ pH' = LoadOwn(headMsgs)
  /\ pPc' = "load_tail"
  /\ UNCHANGED <<pX, pT, pNext, pRes, pSeenTail, pKnowsC>>
  /\ UNCHANGED <<ringVars, consVars, ghostVars, restVars>>

\* BadRing masking h before the increment instead of after it
Bad_try_push_load_tail_premask ==
  /\ ring = "BadRing"
  /\ pPc = "load_tail"
  /\ \E m \in Load(tailMsgs, pSeenTail, pKnowsC, BadRingOrder.push_tail_load) :
       /\ pT' = m.val
       /\ pSeenTail' = m.seen
       /\ pKnowsC' = m.knows
  /\ pNext' = BitAnd(pH, mask) + 1
  /\ pPc' = "check"
  /\ UNCHANGED <<pX, pH, pRes>>
  /\ UNCHANGED <<ringVars, consVars, ghostVars, restVars>>

\* const auto t = tail.v.load(std::memory_order_relaxed);
\* const auto next = (h + 1) & mask;
Bad_try_push_load_tail ==
  /\ ring = "BadRing"
  /\ pPc = "load_tail"
  /\ \E m \in Load(tailMsgs, pSeenTail, pKnowsC, BadRingOrder.push_tail_load) :
       /\ pT' = m.val
       /\ pSeenTail' = m.seen
       /\ pKnowsC' = m.knows
  /\ pNext' = BitAnd(pH + 1, mask)
  /\ pPc' = "check"
  /\ UNCHANGED <<pX, pH, pRes>>
  /\ UNCHANGED <<ringVars, consVars, ghostVars, restVars>>

\* if (next == t) return false;
Bad_try_push_full ==
  /\ ring = "BadRing"
  /\ pPc = "check"
  /\ pNext = pT
  /\ pRes' = FALSE
  /\ pPc' = "idle"
  /\ pX' = 0 /\ pH' = 0 /\ pT' = 0 /\ pNext' = 0
  /\ UNCHANGED <<pSeenTail, pKnowsC>>
  /\ UNCHANGED <<ringVars, consVars, ghostVars, restVars>>

\* buf[h] = x;
Bad_try_push_write_buf ==
  /\ ring = "BadRing"
  /\ pPc = "check"
  /\ pNext # pT
  /\ buf' = [buf EXCEPT ![pH] = pX]
  /\ wEpoch' = [wEpoch EXCEPT ![pH] = pEpoch]
  /\ race' = (race \/ WriteRaces(pH))
  /\ pPc' = "publish"
  /\ UNCHANGED <<pX, pH, pT, pNext, pRes, pSeenTail, pKnowsC>>
  /\ UNCHANGED <<ring, Capacity, headMsgs, tailMsgs>>
  /\ UNCHANGED <<rEpoch, pushedSeq, poppedSeq>>
  /\ UNCHANGED <<consVars, restVars>>

\* head.v.store(next, std::memory_order_relaxed); return true;
Bad_try_push_store_head ==
  /\ ring = "BadRing"
  /\ pPc = "publish"
  /\ headMsgs' = Store(headMsgs, pNext, BadRingOrder.push_head_store)
  /\ pushedSeq' = Append(pushedSeq, pX)
  /\ pRes' = TRUE
  /\ pPc' = "idle"
  /\ pX' = 0 /\ pH' = 0 /\ pT' = 0 /\ pNext' = 0
  /\ UNCHANGED <<pSeenTail, pKnowsC>>
  /\ UNCHANGED <<ring, Capacity, tailMsgs, buf>>
  /\ UNCHANGED <<wEpoch, rEpoch, race, poppedSeq>>
  /\ UNCHANGED <<consVars, restVars>>

\* ------------------------------------------------- BadRing::try_pop
\* const auto t = tail.v.load(std::memory_order_relaxed);
Bad_try_pop_load_tail ==
  /\ ring = "BadRing"
  /\ cPc = "load_tail"
  /\ cT' = LoadOwn(tailMsgs)
  /\ cPc' = "load_head"
  /\ UNCHANGED <<cH, cOut, cRes, cSeenHead, cKnowsP>>
  /\ UNCHANGED <<ringVars, prodVars, ghostVars, restVars>>

\* const auto h = head.v.load(std::memory_order_relaxed);
Bad_try_pop_load_head ==
  /\ ring = "BadRing"
  /\ cPc = "load_head"
  /\ \E m \in Load(headMsgs, cSeenHead, cKnowsP, BadRingOrder.pop_head_load) :
       /\ cH' = m.val
       /\ cSeenHead' = m.seen
       /\ cKnowsP' = m.knows
  /\ cPc' = "check"
  /\ UNCHANGED <<cT, cOut, cRes>>
  /\ UNCHANGED <<ringVars, prodVars, ghostVars, restVars>>

\* if (t == h) return false;
Bad_try_pop_empty ==
  /\ ring = "BadRing"
  /\ cPc = "check"
  /\ cT = cH
  /\ cRes' = FALSE
  /\ cPc' = "idle"
  /\ cT' = 0 /\ cH' = 0
  /\ UNCHANGED <<cOut, cSeenHead, cKnowsP>>
  /\ UNCHANGED <<ringVars, prodVars, ghostVars, restVars>>

\* out = buf[t];
Bad_try_pop_read_buf ==
  /\ ring = "BadRing"
  /\ cPc = "check"
  /\ cT # cH
  /\ cOut' \in ReadSlot(cT)
  /\ rEpoch' = [rEpoch EXCEPT ![cT] = cEpoch]
  /\ race' = (race \/ ReadRaces(cT))
  /\ cPc' = "retire"
  /\ UNCHANGED <<cT, cH, cRes, cSeenHead, cKnowsP>>
  /\ UNCHANGED <<wEpoch, pushedSeq, poppedSeq>>
  /\ UNCHANGED <<ringVars, prodVars, restVars>>

\* tail.v.store((t + 1) & mask, std::memory_order_relaxed); return true;
Bad_try_pop_store_tail ==
  /\ ring = "BadRing"
  /\ cPc = "retire"
  /\ tailMsgs' = Store(tailMsgs, BitAnd(cT + 1, mask), BadRingOrder.pop_tail_store)
  /\ poppedSeq' = Append(poppedSeq, cOut)
  /\ cRes' = TRUE
  /\ cPc' = "idle"
  /\ cT' = 0 /\ cH' = 0
  /\ UNCHANGED <<cOut, cSeenHead, cKnowsP>>
  /\ UNCHANGED <<ring, Capacity, headMsgs, buf>>
  /\ UNCHANGED <<wEpoch, rEpoch, race, pushedSeq>>
  /\ UNCHANGED <<prodVars, restVars>>

InitBad == InitRing("BadRing")

NextBad ==
  \/ producer_call
  \/ producer_stop
  \/ Bad_try_push_load_head
  \/ Bad_try_push_load_tail
  \/ Bad_try_push_full
  \/ Bad_try_push_write_buf
  \/ Bad_try_push_store_head
  \/ consumer_call
  \/ consumer_stop
  \/ Bad_try_pop_load_tail
  \/ Bad_try_pop_load_head
  \/ Bad_try_pop_empty
  \/ Bad_try_pop_read_buf
  \/ Bad_try_pop_store_tail

SpecBad == InitBad /\ [][NextBad]_vars

\* ------------------------------------------------- SpscRing<T, CapacityPow2>
\* static_assert((CapacityPow2 & (CapacityPow2 - 1)) == 0, ...)
assert_power_of_two(C) == BitAnd(C, SizeSub(C, 1)) = 0

\* static_assert(std::is_trivially_copyable_v<T>, ...)
assert_trivially_copyable(isTrivial) == isTrivial

\* every std::size_t the template can be instantiated with
SizeValues == 0 .. Pow2(SizeBits) - 1

\* an instantiation SpscRing<T, cand> about to be compiled; no ring runs
InitCtor ==
  /\ cand \in SizeValues
  /\ trivial \in BOOLEAN
  /\ built = "pending"
  /\ RingFresh("none", 0)
  /\ BatchIdle
  /\ ShardIdle
  /\ LayoutIdle
  /\ LaterIdle

\* the compiler evaluates the two static_asserts of the instantiation
instantiate ==
  /\ built = "pending"
  /\ built' = IF assert_power_of_two(cand) /\ assert_trivially_copyable(trivial)
              THEN "accepted" ELSE "rejected"
  /\ UNCHANGED <<cand, trivial>>
  /\ UNCHANGED <<ringVars, prodVars, consVars, ghostVars, batchVars>>
  /\ UNCHANGED <<shardVars, layoutVars, laterVars>>

NextCtor == instantiate

SpecCtor == InitCtor /\ [][NextCtor]_vars

\* ------------------------------------------- one thread using the ring
\* accepted pushes per run of the single-threaded use
MaxPushSeq == 9

\* a single thread calls rb.try_push(i) with the next integer of its run,
\* as the benchmark producer does with static_cast<uint32_t>(i); every
\* earlier call on the ring is sequenced before this one
seq_try_push_call ==
  /\ ring = "SpscRing"
  /\ pPc = "idle" /\ cPc = "idle"
  /\ Len(pushedSeq) < MaxPushSeq
  /\ pX' = Len(pushedSeq) + 1
  /\ pSeenTail' = Len(tailMsgs)
  /\ pKnowsC' = Len(tailMsgs)
  /\ pPc' = "load_head"
  /\ UNCHANGED <<pH, pT, pNext, pRes>>
  /\ UNCHANGED <<ringVars, consVars, ghostVars, restVars>>

\* the same thread calls rb.try_pop(val)
seq_try_pop_call ==
  /\ ring = "SpscRing"
  /\ pPc = "idle" /\ cPc = "idle"
  /\ cSeenHead' = Len(headMsgs)
  /\ cKnowsP' = Len(headMsgs)
  /\ cPc' = "load_tail"
  /\ UNCHANGED <<cT, cH, cOut, cRes>>
  /\ UNCHANGED <<ringVars, prodVars, ghostVars, restVars>>

NextSeq ==
  \/ seq_try_push_call
  \/ try_push_load_head
  \/ try_push_load_tail
  \/ try_push_full
  \/ try_push_write_buf
  \/ try_push_store_head
  \/ seq_try_pop_call
  \/ try_pop_load_tail
  \/ try_pop_load_head
  \/ try_pop_empty
  \/ try_pop_read_buf
  \/ try_pop_store_tail

SpecSeq == Init /\ [][NextSeq]_vars

\* ------------------------------------- SpscRing::push_many / pop_many
MaxBatch     == 2         \* n of a push_many or pop_many call is 0..MaxBatch
MaxPushBatch == 4         \* push_many is offered the first MaxPushBatch stream elements

\* the producer thread calls rb.push_many(xs, n) with the next n integers
\* of its stream in xs;  std::size_t pushed = 0;
push_many_call ==
  /\ ring = "SpscRing"
  /\ pmPc = "idle" /\ pPc = "idle"
  /\ \E n \in 0 .. MaxBatch :
       /\ Len(pushedSeq) + n <= MaxPushBatch
       /\ pmN' = n
       /\ pmXs' = [i \in 1 .. n |-> Len(pushedSeq) + i]
  /\ pushed' = 0
  /\ pmPc' = "loop"
  /\ pmAt' = [RingAt EXCEPT !.current = (pSeenTail = Len(tailMsgs))]
  /\ UNCHANGED <<pmRet, qmPc, qmXs, qmN, popped, qmRet, qmAt>>
  /\ UNCHANGED <<ringVars, prodVars, consVars, ghostVars, otherVars>>

\* while (pushed < n) { if (!try_push(xs[pushed])) ...
push_many_loop ==
  /\ pmPc = "loop"
  /\ pushed < pmN
  /\ pX' = pmXs[pushed + 1]
  /\ pPc' = "load_head"
  /\ pmPc' = "try"
  /\ pmAt' = [pmAt EXCEPT !.tries = @ + 1]
  /\ UNCHANGED <<pH, pT, pNext, pRes, pSeenTail, pKnowsC>>
  /\ UNCHANGED <<pmXs, pmN, pushed, pmRet, qmPc, qmXs, qmN, popped, qmRet, qmAt>>
  /\ UNCHANGED <<ringVars, consVars, ghostVars, otherVars>>

\* push_many carrying on with the next element after a failed try_push
push_many_skip ==
  /\ pmPc = "try" /\ pPc = "idle"
  /\ ~pRes
  /\ pushed' = pushed + 1
  /\ pmPc' = "loop"
  /\ UNCHANGED <<pmXs, pmN, pmRet, pmAt, qmPc, qmXs, qmN, popped, qmRet, qmAt>>
  /\ UNCHANGED <<ringVars, prodVars, consVars, ghostVars, otherVars>>

\* if (!try_push(xs[pushed])) break;  ...  return pushed;
push_many_break ==
  /\ pmPc = "try" /\ pPc = "idle"
  /\ ~pRes
  /\ pmRet' = pushed
  /\ pmPc' = "returned"
  /\ UNCHANGED <<pmXs, pmN, pushed, pmAt, qmPc, qmXs, qmN, popped, qmRet, qmAt>>
  /\ UNCHANGED <<ringVars, prodVars, consVars, ghostVars, otherVars>>

\* ++pushed;
push_many_next ==
  /\ pmPc = "try" /\ pPc = "idle"
  /\ pRes
  /\ pushed' = pushed + 1
  /\ pmPc' = "loop"
  /\ UNCHANGED <<pmXs, pmN, pmRet, pmAt, qmPc, qmXs, qmN, popped, qmRet, qmAt>>
  /\ UNCHANGED <<ringVars, prodVars, consVars, ghostVars, otherVars>>

\* while (pushed < n) is false:  return pushed;
push_many_return ==
  /\ pmPc = "loop"
  /\ ~(pushed < pmN)
  /\ pmRet' = pushed
  /\ pmPc' = "returned"
  /\ UNCHANGED <<pmXs, pmN, pushed, pmAt, qmPc, qmXs, qmN, popped, qmRet, qmAt>>
  /\ UNCHANGED <<ringVars, prodVars, consVars, ghostVars, otherVars>>

\* the producer thread has used the count push_many returned
push_many_done ==
  /\ pmPc = "returned"
  /\ pmPc' = "idle" /\ pmXs' = << >> /\ pmN' = 0 /\ pushed' = 0 /\ pmRet' = 0
  /\ pmAt' = NoCall
  /\ UNCHANGED <<qmPc, qmXs, qmN, popped, qmRet, qmAt>>
  /\ UNCHANGED <<ringVars, prodVars, consVars, ghostVars, otherVars>>

\* the consumer thread calls rb.pop_many(xs, n);  std::size_t popped = 0;
pop_many_call ==
  /\ ring = "SpscRing"
  /\ qmPc = "idle" /\ cPc = "idle"
  /\ \E n \in 0 .. MaxBatch :
       /\ qmN' = n
       /\ qmXs' = [i \in 1 .. n |-> OutFill]
  /\ popped' = 0
  /\ qmPc' = "loop"
  /\ qmAt' = [RingAt EXCEPT !.current = (cSeenHead = Len(headMsgs))]
  /\ UNCHANGED <<qmRet, pmPc, pmXs, pmN, pushed, pmRet, pmAt>>
  /\ UNCHANGED <<ringVars, prodVars, consVars, ghostVars, otherVars>>

\* while (popped < n) { if (!try_pop(xs[popped])) ...   out is xs[popped]
pop_many_loop ==
  /\ qmPc = "loop"
  /\ popped < qmN
  /\ cOut' = qmXs[popped + 1]
  /\ cPc' = "load_tail"
  /\ qmPc' = "try"
  /\ qmAt' = [qmAt EXCEPT !.tries = @ + 1]
  /\ UNCHANGED <<cT, cH, cRes, cSeenHead, cKnowsP>>
  /\ UNCHANGED <<qmXs, qmN, popped, qmRet, pmPc, pmXs, pmN, pushed, pmRet, pmAt>>
  /\ UNCHANGED <<ringVars, prodVars, ghostVars, otherVars>>

\* if (!try_pop(xs[popped])) break;  ...  return popped;
pop_many_break ==
  /\ qmPc = "try" /\ cPc = "idle"
  /\ ~cRes
  /\ qmXs' = [qmXs EXCEPT ![popped + 1] = cOut]
  /\ qmRet' = popped
  /\ qmPc' = "returned"
  /\ UNCHANGED <<qmN, popped, qmAt, pmPc, pmXs, pmN, pushed, pmRet, pmAt>>
  /\ UNCHANGED <<ringVars, prodVars, consVars, ghostVars, otherVars>>

\* ++popped;   xs[popped] holds what try_pop wrote through out
pop_many_next ==
  /\ qmPc = "try" /\ cPc = "idle"
  /\ cRes
  /\ qmXs' = [qmXs EXCEPT ![popped + 1] = cOut]
  /\ popped' = popped + 1
  /\ qmPc' = "loop"
  /\ UNCHANGED <<qmN, qmRet, qmAt, pmPc, pmXs, pmN, pushed, pmRet, pmAt>>
  /\ UNCHANGED <<ringVars, prodVars, consVars, ghostVars, otherVars>>

\* while (popped < n) is false:  return popped;
pop_many_return ==
  /\ qmPc = "loop"
  /\ ~(popped < qmN)
  /\ qmRet' = popped
  /\ qmPc' = "returned"
  /\ UNCHANGED <<qmXs, qmN, popped, qmAt, pmPc, pmXs, pmN, pushed, pmRet, pmAt>>
  /\ UNCHANGED <<ringVars, prodVars, consVars, ghostVars, otherVars>>

\* the consumer thread has used the count and the elements pop_many returned
pop_many_done ==
  /\ qmPc = "returned"
  /\ qmPc' = "idle" /\ qmXs' = << >> /\ qmN' = 0 /\ popped' = 0 /\ qmRet' = 0
  /\ qmAt' = NoCall
  /\ UNCHANGED <<pmPc, pmXs, pmN, pushed, pmRet, pmAt>>
  /\ UNCHANGED <<ringVars, prodVars, consVars, ghostVars, otherVars>>

NextBatch ==
  \/ push_many_call
  \/ push_many_loop
  \/ push_many_break
  \/ push_many_next
  \/ push_many_return
  \/ push_many_done
  \/ try_push_load_head
  \/ try_push_load_tail
  \/ try_push_full
  \/ try_push_write_buf
  \/ try_push_store_head
  \/ pop_many_call
  \/ pop_many_loop
  \/ pop_many_break
  \/ pop_many_next
  \/ pop_many_return
  \/ pop_many_done
  \/ try_pop_load_tail
  \/ try_pop_load_head
  \/ try_pop_empty
  \/ try_pop_read_buf
  \/ try_pop_store_tail

SpecBatch == Init /\ [][NextBatch]_vars

\* ------------------------------------------------- sharded counters
MaxThreads == 3           \* a run has 1..MaxThreads worker threads
MaxIters   == 2           \* each worker makes 0..MaxIters increments

\* the thread that runs the benchmark body
MainThread == 0 - 1

Workers == 0 .. threads - 1

\* std::vector<Slot> slots(threads): value-initialised counters, no thread yet
ShardFresh(b, n, k) ==
  /\ bench = b /\ threads = n /\ iters_per_thread = k
  /\ slots = [t \in 0 .. n - 1 |-> 0]
  /\ wPc = [t \in 0 .. n - 1 |-> "unborn"]
  /\ wI = [t \in 0 .. n - 1 |-> 0]
  /\ wTmp = [t \in 0 .. n - 1 |-> 0]
  /\ mPc = "spawn" /\ mT = 0 /\ sum = 0 /\ joined = {}
  /\ touched = [t \in 0 .. n - 1 |-> {}]

InitShard ==
  /\ \E b \in {"PaddedCounter", "SharedSlot", "PaddedSlot"} :
       \E n \in 1 .. MaxThreads :
         \E k \in 0 .. MaxIters : ShardFresh(b, n, k)
  /\ RingFresh("none", 0)
  /\ cand = 0 /\ trivial = TRUE /\ built = "none"
  /\ BatchIdle
  /\ LayoutIdle
  /\ LaterIdle

\* ---- BM_ShardedCounters
\* every thread given the first shard
shard_of_first(t) == 0

\* shards[static_cast<std::size_t>(t)]
shard_of(t) == t

\* for (int t = 0; t < threads; ++t) ts.emplace_back(...)
Sharded_spawn ==
  /\ bench = "PaddedCounter"
  /\ mPc = "spawn"
  /\ wPc' = [wPc EXCEPT ![mT] = "run"]
  /\ IF mT + 1 < threads
       THEN mT' = mT + 1 /\ mPc' = "spawn"
       ELSE mT' = 0 /\ mPc' = "join"
  /\ UNCHANGED <<bench, threads, iters_per_thread, slots, wI, wTmp, sum, joined, touched>>
  /\ UNCHANGED nonShardVars

\* i < iters: the read of shards[t].v in  += 1
Sharded_worker_load(t) ==
  /\ bench = "PaddedCounter"
  /\ wPc[t] = "run"
  /\ wI[t] < iters_per_thread
  /\ wTmp' = [wTmp EXCEPT ![t] = slots[shard_of(t)]]
  /\ touched' = [touched EXCEPT ![shard_of(t)] = @ \cup {t}]
  /\ wPc' = [wPc EXCEPT ![t] = "store"]
  /\ UNCHANGED <<bench, threads, iters_per_thread, slots, wI, mPc, mT, sum, joined>>
  /\ UNCHANGED nonShardVars

\* the write of shards[t].v in  += 1;  ++i
Sharded_worker_store(t) ==
  /\ bench = "PaddedCounter"
  /\ wPc[t] = "store"
  /\ slots' = [slots EXCEPT ![shard_of(t)] = wTmp[t] + 1]
  /\ touched' = [touched EXCEPT ![shard_of(t)] = @ \cup {t}]
  /\ wI' = [wI EXCEPT ![t] = @ + 1]
  /\ wPc' = [wPc EXCEPT ![t] = "run"]
  /\ UNCHANGED <<bench, threads, iters_per_thread, wTmp, mPc, mT, sum, joined>>
  /\ UNCHANGED nonShardVars

\* i < iters is false: the thread function returns
Sharded_worker_exit(t) ==
  /\ bench = "PaddedCounter"
  /\ wPc[t] = "run"
  /\ ~(wI[t] < iters_per_thread)
  /\ wPc' = [wPc EXCEPT ![t] = "done"]
  /\ UNCHANGED <<bench, threads, iters_per_thread, slots, wI, wTmp, mPc, mT, sum,
                 joined, touched>>
  /\ UNCHANGED nonShardVars

\* the main thread going on without waiting for the thread to finish
Sharded_join_nowait ==
  /\ bench = "PaddedCounter"
  /\ mPc = "join"
  /\ joined' = joined \cup {mT}
  /\ IF mT + 1 < threads
       THEN mT' = mT + 1 /\ mPc' = "join"
       ELSE mT' = 0 /\ mPc' = "sum"
  /\ UNCHANGED <<bench, threads, iters_per_thread, slots, wPc, wI, wTmp, sum, touched>>
  /\ UNCHANGED nonShardVars

\* for (auto& th : ts) th.join();   returns once the thread has finished
Sharded_join ==
  /\ bench = "PaddedCounter"
  /\ mPc = "join"
  /\ wPc[mT] = "done"
  /\ joined' = joined \cup {mT}
  /\ IF mT + 1 < threads
       THEN mT' = mT + 1 /\ mPc' = "join"
       ELSE mT' = 0 /\ mPc' = "sum"
  /\ UNCHANGED <<bench, threads, iters_per_thread, slots, wPc, wI, wTmp, sum, touched>>
  /\ UNCHANGED nonShardVars

\* std::uint64_t sum = 0;  for (const auto& pc : shards) sum += pc.v;
Sharded_sum ==
  /\ bench = "PaddedCounter"
  /\ mPc = "sum"
  /\ sum' = sum + slots[mT]
  /\ touched' = [touched EXCEPT ![mT] = @ \cup {MainThread}]
  /\ IF mT + 1 < threads
       THEN mT' = mT + 1 /\ mPc' = "sum"
       ELSE mT' = 0 /\ mPc' = "done"
  /\ UNCHANGED <<bench, threads, iters_per_thread, slots, wPc, wI, wTmp, joined>>
  /\ UNCHANGED nonShardVars

\* ---- run_false_sharing_trial<Slot> / thread_body<Slot>
\* &slots[static_cast<std::size_t>(t)]
slot_of(t) == t

\* for (int t = 0; t < threads; ++t) ts.emplace_back(...)
Trial_spawn ==
  /\ bench \in {"SharedSlot", "PaddedSlot"}
  /\ mPc = "spawn"
  /\ wPc' = [wPc EXCEPT ![mT] = "run"]
  /\ IF mT + 1 < threads
       THEN mT' = mT + 1 /\ mPc' = "spawn"
       ELSE mT' = 0 /\ mPc' = "join"
  /\ UNCHANGED <<bench, threads, iters_per_thread, slots, wI, wTmp, sum, joined, touched>>
  /\ UNCHANGED nonShardVars

\* i < iters: the read of slot->c in  += 1
thread_body_load(t) ==
  /\ bench \in {"SharedSlot", "PaddedSlot"}
  /\ wPc[t] = "run"
  /\ wI[t] < iters_per_thread
  /\ wTmp' = [wTmp EXCEPT ![t] = slots[slot_of(t)]]
  /\ touched' = [touched EXCEPT ![slot_of(t)] = @ \cup {t}]
  /\ wPc' = [wPc EXCEPT ![t] = "store"]
  /\ UNCHANGED <<bench, threads, iters_per_thread, slots, wI, mPc, mT, sum, joined>>
  /\ UNCHANGED nonShardVars

\* the write of slot->c in  += 1;  ++i
thread_body_store(t) ==
  /\ bench \in {"SharedSlot", "PaddedSlot"}
  /\ wPc[t] = "store"
  /\ slots' = [slots EXCEPT ![slot_of(t)] = wTmp[t] + 1]
  /\ touched' = [touched EXCEPT ![slot_of(t)] = @ \cup {t}]
  /\ wI' = [wI EXCEPT ![t] = @ + 1]
  /\ wPc' = [wPc EXCEPT ![t] = "run"]
  /\ UNCHANGED <<bench, threads, iters_per_thread, wTmp, mPc, mT, sum, joined>>
  /\ UNCHANGED nonShardVars

\* i < iters is false: the thread function returns
thread_body_return(t) ==
  /\ bench \in {"SharedSlot", "PaddedSlot"}
  /\ wPc[t] = "run"
  /\ ~(wI[t] < iters_per_thread)
  /\ wPc' = [wPc EXCEPT ![t] = "done"]
  /\ UNCHANGED <<bench, threads, iters_per_thread, slots, wI, wTmp, mPc, mT, sum,
                 joined, touched>>
  /\ UNCHANGED nonShardVars

\* for (auto& th : ts) th.join();   returns once the thread has finished
Trial_join ==
  /\ bench \in {"SharedSlot", "PaddedSlot"}
  /\ mPc = "join"
  /\ wPc[mT] = "done"
  /\ joined' = joined \cup {mT}
  /\ IF mT + 1 < threads
       THEN mT' = mT + 1 /\ mPc' = "join"
       ELSE mT' = 0 /\ mPc' = "sum"
  /\ UNCHANGED <<bench, threads, iters_per_thread, slots, wPc, wI, wTmp, sum, touched>>
  /\ UNCHANGED nonShardVars

\* std::uint64_t sum = 0;  for (const auto& s : slots) sum += s.c;
Trial_sum ==
  /\ bench \in {"SharedSlot", "PaddedSlot"}
  /\ mPc = "sum"
  /\ sum' = sum + slots[mT]
  /\ touched' = [touched EXCEPT ![mT] = @ \cup {MainThread}]
  /\ IF mT + 1 < threads
       THEN mT' = mT + 1 /\ mPc' = "sum"
       ELSE mT' = 0 /\ mPc' = "done"
  /\ UNCHANGED <<bench, threads, iters_per_thread, slots, wPc, wI, wTmp, joined>>
  /\ UNCHANGED nonShardVars

NextShard ==
  \/ Sharded_spawn
  \/ \E t \in Workers : Sharded_worker_load(t)
  \/ \E t \in Workers : Sharded_worker_store(t)
  \/ \E t \in Workers : Sharded_worker_exit(t)
  \/ Sharded_join
  \/ Sharded_sum
  \/ Trial_spawn
  \/ \E t \in Workers : thread_body_load(t)
  \/ \E t \in Workers : thread_body_store(t)
  \/ \E t \in Workers : thread_body_return(t)
  \/ Trial_join
  \/ Trial_sum

SpecShard == InitShard /\ [][NextShard]_vars

\* ------------------------------------------------- slot struct layout
MaxClsLog2 == 7           \* CLS is 2^3 .. 2^MaxClsLog2
MaxBase    == 3           \* data() is 0 .. MaxBase alignment units from address 0

\* sizeof(std::uint64_t), alignof(std::uint64_t)
Uint64Size == 8

\* the values std::hardware_destructive_interference_size (or 64) can have
\* in a build that accepts alignas(CLS) on a struct with a uint64_t member
ClsValues == { Pow2(k) : k \in 3 .. MaxClsLog2 }

SlotTypes == {"SharedSlot", "PaddedSlot", "PaddedCounter"}

\* (CLS > sizeof(std::uint64_t)) ? (CLS - sizeof(std::uint64_t)) : 1
PAD(cls) == IF cls > Uint64Size THEN cls - Uint64Size ELSE 1

\* a size rounded up to the next multiple of the alignment
RoundUp(n, a) == ((n + a - 1) \div a) * a

\* the struct without its alignas(CLS)
AlignOf_natural(type, cls) == Uint64Size

\* struct alignas(CLS) PaddedSlot / PaddedCounter;  struct SharedSlot
AlignOf(type, cls) ==
  IF type = "SharedSlot" THEN Uint64Size ELSE Max(cls, Uint64Size)

\* members in declaration order, c or v at offset 0, then pad[PAD];
\* tail padding up to a multiple of the alignment
SizeOf(type, cls) ==
  RoundUp(IF type = "SharedSlot" THEN Uint64Size ELSE Uint64Size + PAD(cls),
          AlignOf(type, cls))

\* static_assert(alignof(PaddedSlot) >= CLS); static_assert(sizeof(PaddedSlot) % CLS == 0)
\* static_assert(alignof(PaddedCounter) >= CLS)
static_asserts(type, cls) ==
  CASE type = "PaddedSlot" ->
         AlignOf(type, cls) >= cls /\ SizeOf(type, cls) % cls = 0
    [] type = "PaddedCounter" -> AlignOf(type, cls) >= cls
    [] OTHER -> TRUE

\* a translation unit with the struct definitions, not yet compiled
InitLayout ==
  /\ CLS \in ClsValues
  /\ slotType \in SlotTypes
  /\ lyPc = "declared"
  /\ sizeofSlot = 0 /\ alignofSlot = 0 /\ nslots = 0 /\ data = 0
  /\ RingFresh("none", 0)
  /\ cand = 0 /\ trivial = TRUE /\ built = "none"
  /\ BatchIdle
  /\ ShardIdle
  /\ LaterIdle

\* the compiler lays the struct out and evaluates its static_asserts
lay_out ==
  /\ lyPc = "declared"
  /\ alignofSlot' = AlignOf(slotType, CLS)
  /\ sizeofSlot' = SizeOf(slotType, CLS)
  /\ lyPc' = IF static_asserts(slotType, CLS) THEN "complete" ELSE "rejected"
  /\ UNCHANGED <<CLS, slotType, nslots, data>>
  /\ UNCHANGED nonLayoutVars

\* std::vector<Slot> slots(threads): storage aligned to alignof(Slot)
allocate ==
  /\ lyPc = "complete"
  /\ \E n \in 1 .. MaxThreads : nslots' = n
  /\ \E a \in 0 .. MaxBase : data' = a * alignofSlot
  /\ lyPc' = "allocated"
  /\ UNCHANGED <<CLS, slotType, sizeofSlot, alignofSlot>>
  /\ UNCHANGED nonLayoutVars

NextLayout ==
  \/ lay_out
  \/ allocate

SpecLayout == InitLayout /\ [][NextLayout]_vars

\* ------------------------------------------ either ring, two threads
MaxPushRings == 2         \* accepted pushes per run when either ring is run

\* Ring rb{} or BadRing rb{}
InitRings == InitRing("SpscRing") \/ InitRing("BadRing")

NextRings ==
  \/ Next /\ Len(pushedSeq') <= MaxPushRings
  \/ NextBad /\ Len(pushedSeq') <= MaxPushRings

SpecRings == InitRings /\ [][NextRings]_vars

\* ------------------------- either ring, sequentially consistent memory
\* with the memory orders ignored every load returns the latest store and
\* every slot read the latest write

\* SpscRing::try_push: t = tail.v.load(...) reading the latest store
SC_try_push_load_tail == try_push_load_tail /\ pSeenTail' = Len(tailMsgs)

\* SpscRing::try_pop: h = head.v.load(...) reading the latest store
SC_try_pop_load_head == try_pop_load_head /\ cSeenHead' = Len(headMsgs)

\* SpscRing::try_pop: out = buf[t] reading the latest write
SC_try_pop_read_buf == try_pop_read_buf /\ cOut' = buf[cT]

\* BadRing::try_push: t = tail.v.load(...) reading the latest store
SC_Bad_try_push_load_tail == Bad_try_push_load_tail /\ pSeenTail' = Len(tailMsgs)

\* BadRing::try_pop: h = head.v.load(...) reading the latest store
SC_Bad_try_pop_load_head == Bad_try_pop_load_head /\ cSeenHead' = Len(headMsgs)

\* BadRing::try_pop: out = buf[t] reading the latest write
SC_Bad_try_pop_read_buf == Bad_try_pop_read_buf /\ cOut' = buf[cT]

NextSC ==
  \/ producer_call
  \/ try_push_load_head
  \/ SC_try_push_load_tail
  \/ try_push_full
  \/ try_push_write_buf
  \/ try_push_store_head
  \/ consumer_call
  \/ try_pop_load_tail
  \/ SC_try_pop_load_head
  \/ try_pop_empty
  \/ SC_try_pop_read_buf
  \/ try_pop_store_tail
  \/ Bad_try_push_load_head
  \/ SC_Bad_try_push_load_tail
  \/ Bad_try_push_full
  \/ Bad_try_push_write_buf
  \/ Bad_try_push_store_head
  \/ Bad_try_pop_load_tail
  \/ SC_Bad_try_pop_load_head
  \/ Bad_try_pop_empty
  \/ SC_Bad_try_pop_read_buf
  \/ Bad_try_pop_store_tail

SpecSC == InitRings /\ [][NextSC]_vars

\* ------------------------------------------- shared atomic counter
\* what BM_SharedAtomicCounter leaves alone
nonAtomicVars == <<ringVars, prodVars, consVars, ghostVars, ctorVars, batchVars,
                   layoutVars, demoVars, twoVars, harnessVars>>

\* std::atomic<std::uint64_t> shared{0}; std::vector<std::thread> ts;
AtomicFresh(n, k) ==
  /\ bench = "SharedAtomic" /\ threads = n /\ iters_per_thread = k
  /\ slots = << >> /\ touched = << >>
  /\ wPc = [t \in 0 .. n - 1 |-> "unborn"]
  /\ wI = [t \in 0 .. n - 1 |-> 0]
  /\ wTmp = [t \in 0 .. n - 1 |-> 0]
  /\ mPc = "spawn" /\ mT = 0 /\ sum = 0 /\ joined = {}
  /\ shared = <<0>>
  /\ wView = [t \in 0 .. n - 1 |-> 1]
  /\ mView = 1
  /\ loaded = 0

InitAtomic ==
  /\ \E n \in 1 .. MaxThreads :
       \E k \in 0 .. MaxIters : AtomicFresh(n, k)
  /\ RingFresh("none", 0)
  /\ cand = 0 /\ trivial = TRUE /\ built = "none"
  /\ BatchIdle
  /\ LayoutIdle
  /\ DemoIdle
  /\ TwoIdle
  /\ HarnessIdle

\* for (int t = 0; t < threads; ++t) ts.emplace_back(...)
Atomic_spawn ==
  /\ bench = "SharedAtomic"
  /\ mPc = "spawn"
  /\ wPc' = [wPc EXCEPT ![mT] = "run"]
  /\ wView' = [wView EXCEPT ![mT] = mView]
  /\ IF mT + 1 < threads
       THEN mT' = mT + 1 /\ mPc' = "spawn"
       ELSE mT' = 0 /\ mPc' = "join"
  /\ UNCHANGED <<bench, threads, iters_per_thread, slots, wI, wTmp, sum, joined, touched>>
  /\ UNCHANGED <<shared, mView, loaded>>
  /\ UNCHANGED nonAtomicVars

\* an increment done as a load followed by a store of the loaded value + 1
Atomic_worker_fetch_add_torn(t) ==
  /\ bench = "SharedAtomic"
  /\ wPc[t] = "run"
  /\ wI[t] < iters_per_thread
  /\ \E i \in wView[t] .. Len(shared) : shared' = Append(shared, shared[i] + 1)
  /\ wView' = [wView EXCEPT ![t] = Len(shared')]
  /\ wI' = [wI EXCEPT ![t] = @ + 1]
  /\ UNCHANGED <<bench, threads, iters_per_thread, slots, wPc, wTmp, mPc, mT, sum,
                 joined, touched>>
  /\ UNCHANGED <<mView, loaded>>
  /\ UNCHANGED nonAtomicVars

\* i < iters_per_thread: shared.fetch_add(1, std::memory_order_relaxed);  ++i
\* a read-modify-write reads the last value in the modification order
Atomic_worker_fetch_add(t) ==
  /\ bench = "SharedAtomic"
  /\ wPc[t] = "run"
  /\ wI[t] < iters_per_thread
  /\ shared' = Append(shared, shared[Len(shared)] + 1)
  /\ wView' = [wView EXCEPT ![t] = Len(shared')]
  /\ wI' = [wI EXCEPT ![t] = @ + 1]
  /\ UNCHANGED <<bench, threads, iters_per_thread, slots, wPc, wTmp, mPc, mT, sum,
                 joined, touched>>
  /\ UNCHANGED <<mView, loaded>>
  /\ UNCHANGED nonAtomicVars

\* i < iters_per_thread is false: the lambda returns
Atomic_worker_exit(t) ==
  /\ bench = "SharedAtomic"
  /\ wPc[t] = "run"
  /\ ~(wI[t] < iters_per_thread)
  /\ wPc' = [wPc EXCEPT ![t] = "done"]
  /\ UNCHANGED <<bench, threads, iters_per_thread, slots, wI, wTmp, mPc, mT, sum,
                 joined, touched>>
  /\ UNCHANGED atomicVars
  /\ UNCHANGED nonAtomicVars

\* for (auto& th : ts) th.join();   the thread's completion synchronizes
\* with the return of join
Atomic_join ==
  /\ bench = "SharedAtomic"
  /\ mPc = "join"
  /\ wPc[mT] = "done"
  /\ joined' = joined \cup {mT}
  /\ mView' = IF wView[mT] > mView THEN wView[mT] ELSE mView
  /\ IF mT + 1 < threads
       THEN mT' = mT + 1 /\ mPc' = "join"
       ELSE mT' = 0 /\ mPc' = "load"
  /\ UNCHANGED <<bench, threads, iters_per_thread, slots, wPc, wI, wTmp, sum, touched>>
  /\ UNCHANGED <<shared, wView, loaded>>
  /\ UNCHANGED nonAtomicVars

\* benchmark::DoNotOptimize(shared.load(std::memory_order_relaxed));
\* a relaxed load returns a store not older than the newest one known
Atomic_load ==
  /\ bench = "SharedAtomic"
  /\ mPc = "load"
  /\ \E i \in mView .. Len(shared) : loaded' = shared[i]
  /\ mPc' = "done"
  /\ UNCHANGED <<bench, threads, iters_per_thread, slots, wPc, wI, wTmp, mT, sum,
                 joined, touched>>
  /\ UNCHANGED <<shared, wView, mView>>
  /\ UNCHANGED nonAtomicVars

NextAtomic ==
  \/ Atomic_spawn
  \/ \E t \in Workers : Atomic_worker_fetch_add(t)
  \/ \E t \in Workers : Atomic_worker_exit(t)
  \/ Atomic_join
  \/ Atomic_load

SpecAtomic == InitAtomic /\ [][NextAtomic]_vars

\* ------------------------------------------------ atomic_order_demo
MaxDemoIters == 3         \* iterations of main's loop in a run

\* constexpr int ITERS = 2000, cut down to the bound
ITERS == MaxDemoIters

\* nothing printed after "Completed ... iterations."
NoCount == 0 - 1

\* what atomic_order_demo leaves alone
nonDemoVars == <<ringVars, prodVars, consVars, ghostVars, ctorVars, batchVars,
                 shardVars, layoutVars, atomicVars, twoVars, harnessVars>>

\* a build in which the flag is stored and loaded relaxed whatever the macro
DemoOrder_relaxed(o) == [ store |-> "relaxed", load |-> "relaxed" ]

\* a build in which the flag is stored release and loaded acquire whatever
\* the macro
DemoOrder_acqrel(o) == [ store |-> "release", load |-> "acquire" ]

\* #if defined(ORDER_RELAXED) ... #elif defined(ORDER_ACQREL) ... #else
DemoOrder(o) ==
  CASE o = "relaxed" -> [ store |-> "relaxed", load |-> "relaxed" ]
    [] o = "acq_rel" -> [ store |-> "release", load |-> "acquire" ]
    [] OTHER         -> [ store |-> "seq_cst", load |-> "seq_cst" ]

\* static std::atomic<int> flag{0}; static int data = 0; main entered
InitDemo ==
  /\ build \in {"relaxed", "acq_rel", "seq_cst"}
  /\ flag = << [val |-> 0, rel |-> TRUE] >>
  /\ demoData = 0 /\ dataBy = "main"
  /\ wrPc = "unborn" /\ wStoreAt = 0
  /\ rdPc = "unborn" /\ rdX = 0 /\ rSeen = 1 /\ rKnows = 1
  /\ mnPc = "reset_flag" /\ demoI = 0 /\ mismatches = 0 /\ out = NoCount
  /\ demoRace = FALSE
  /\ RingFresh("none", 0)
  /\ cand = 0 /\ trivial = TRUE /\ built = "none"
  /\ BatchIdle
  /\ ShardIdle
  /\ LayoutIdle
  /\ AtomicIdle
  /\ TwoIdle
  /\ HarnessIdle

\* flag.store(0, std::memory_order_relaxed);
main_reset_flag ==
  /\ mnPc = "reset_flag"
  /\ flag' = Store(flag, 0, "relaxed")
  /\ mnPc' = "reset_data"
  /\ UNCHANGED <<build, demoData, dataBy, wrPc, wStoreAt, rdPc, rdX, rSeen, rKnows,
                 demoI, mismatches, out, demoRace>>
  /\ UNCHANGED nonDemoVars

\* data = 0;
main_reset_data ==
  /\ mnPc = "reset_data"
  /\ demoData' = 0
  /\ dataBy' = "main"
  /\ mnPc' = "spawn_writer"
  /\ UNCHANGED <<build, flag, wrPc, wStoreAt, rdPc, rdX, rSeen, rKnows,
                 demoI, mismatches, out, demoRace>>
  /\ UNCHANGED nonDemoVars

\* std::thread t1(writer);
main_spawn_writer ==
  /\ mnPc = "spawn_writer"
  /\ wrPc' = "write_data"
  /\ wStoreAt' = 0
  /\ mnPc' = "spawn_reader"
  /\ UNCHANGED <<build, flag, demoData, dataBy, rdPc, rdX, rSeen, rKnows,
                 demoI, mismatches, out, demoRace>>
  /\ UNCHANGED nonDemoVars

\* the index in flag of main's store of 0 in this iteration: the newest
\* message, or the one before the writer's if the writer has stored
MainStoreAt == IF wStoreAt > 0 THEN wStoreAt - 1 ELSE Len(flag)

\* std::thread t2(reader);  the new thread starts knowing what main has done
main_spawn_reader ==
  /\ mnPc = "spawn_reader"
  /\ rdPc' = "spin"
  /\ rSeen' = MainStoreAt
  /\ rKnows' = rSeen'
  /\ mnPc' = "join_writer"
  /\ UNCHANGED <<build, flag, demoData, dataBy, wrPc, wStoreAt, rdX,
                 demoI, mismatches, out, demoRace>>
  /\ UNCHANGED nonDemoVars

\* writer: data = 42;
writer_write_data ==
  /\ wrPc = "write_data"
  /\ demoData' = 42
  /\ dataBy' = "writer"
  /\ wrPc' = "store_flag"
  /\ UNCHANGED <<build, flag, wStoreAt, rdPc, rdX, rSeen, rKnows, mnPc,
                 demoI, mismatches, out, demoRace>>
  /\ UNCHANGED nonDemoVars

\* writer: flag.store(1, ...) with the order of the build; return
writer_store_flag ==
  /\ wrPc = "store_flag"
  /\ flag' = Store(flag, 1, DemoOrder(build).store)
  /\ wStoreAt' = Len(flag')
  /\ wrPc' = "done"
  /\ UNCHANGED <<build, demoData, dataBy, rdPc, rdX, rSeen, rKnows, mnPc,
                 demoI, mismatches, out, demoRace>>
  /\ UNCHANGED nonDemoVars

\* reader: while (flag.load(...) == 0) {}   one evaluation of the condition
reader_spin ==
  /\ rdPc = "spin"
  /\ \E m \in Load(flag, rSeen, rKnows, DemoOrder(build).load) :
       /\ rSeen' = m.seen
       /\ rKnows' = m.knows
       /\ rdPc' = IF m.val = 0 THEN "spin" ELSE "read_data"
  /\ UNCHANGED <<build, flag, demoData, dataBy, wrPc, wStoreAt, rdX, mnPc,
                 demoI, mismatches, out, demoRace>>
  /\ UNCHANGED nonDemoVars

\* the writer's data = 42 happens before the reader's present position
DataOrdered == dataBy = "main" \/ (wStoreAt > 0 /\ rKnows >= wStoreAt)

\* reader: int x = data;  print; return.  A read that is not ordered after
\* the last write is a data race and yields the old or the new value
reader_read_data ==
  /\ rdPc = "read_data"
  /\ IF DataOrdered
       THEN rdX' = demoData /\ demoRace' = demoRace
       ELSE rdX' \in {0, 42} /\ demoRace' = TRUE
  /\ rdPc' = "done"
  /\ UNCHANGED <<build, flag, demoData, dataBy, wrPc, wStoreAt, rSeen, rKnows, mnPc,
                 demoI, mismatches, out>>
  /\ UNCHANGED nonDemoVars

\* t1.join();
main_join_writer ==
  /\ mnPc = "join_writer"
  /\ wrPc = "done"
  /\ mnPc' = "join_reader"
  /\ UNCHANGED <<build, flag, demoData, dataBy, wrPc, wStoreAt, rdPc, rdX, rSeen,
                 rKnows, demoI, mismatches, out, demoRace>>
  /\ UNCHANGED nonDemoVars

\* t2.join();
main_join_reader ==
  /\ mnPc = "join_reader"
  /\ rdPc = "done"
  /\ mnPc' = "check"
  /\ UNCHANGED <<build, flag, demoData, dataBy, wrPc, wStoreAt, rdPc, rdX, rSeen,
                 rKnows, demoI, mismatches, out, demoRace>>
  /\ UNCHANGED nonDemoVars

\* #if ORDER_RELAXED / #elif ORDER_ACQREL: if (data != 42) ++mismatches;
\* ++i and the loop condition
main_check ==
  /\ mnPc = "check"
  /\ mismatches' = IF build \in {"relaxed", "acq_rel"} /\ demoData # 42
                   THEN mismatches + 1 ELSE mismatches
  /\ demoI' = demoI + 1
  /\ wrPc' = "unborn"
  /\ rdPc' = "unborn"
  /\ mnPc' = IF demoI + 1 < ITERS THEN "reset_flag" ELSE "print"
  /\ UNCHANGED <<build, flag, demoData, dataBy, wStoreAt, rdX, rSeen, rKnows,
                 out, demoRace>>
  /\ UNCHANGED nonDemoVars

\* the closing line: only the ORDER_ACQREL build prints Mismatches=
main_print ==
  /\ mnPc = "print"
  /\ out' = IF build = "acq_rel" THEN mismatches ELSE NoCount
  /\ mnPc' = "done"
  /\ UNCHANGED <<build, flag, demoData, dataBy, wrPc, wStoreAt, rdPc, rdX, rSeen,
                 rKnows, demoI, mismatches, demoRace>>
  /\ UNCHANGED nonDemoVars

NextDemo ==
  \/ main_reset_flag
  \/ main_reset_data
  \/ main_spawn_writer
  \/ main_spawn_reader
  \/ writer_write_data
  \/ writer_store_flag
  \/ reader_spin
  \/ reader_read_data
  \/ main_join_writer
  \/ main_join_reader
  \/ main_check
  \/ main_print

SpecDemo == InitDemo /\ [][NextDemo]_vars

\* ------------------------------- SpscRing::try_push from two threads
MaxPushTwo == 3           \* try_push calls returning true per run

\* the two threads that call try_push on the one ring
Pushers == {1, 2}

\* what try_push called by either of the two threads leaves alone
nonTwoVars == <<prodVars, consVars, ctorVars, batchVars, shardVars, layoutVars,
                atomicVars, demoVars, harnessVars>>

InitTwo ==
  /\ \E C \in Capacities :
       /\ RingFresh("SpscRing", C)
       /\ cand = C /\ trivial = TRUE /\ built = "accepted"
       /\ lastWriter = [s \in 0 .. C - 1 |-> 0]
  /\ qPc = [q \in Pushers |-> "idle"]
  /\ qX = [q \in Pushers |-> 0]
  /\ qH = [q \in Pushers |-> 0]
  /\ qT = [q \in Pushers |-> 0]
  /\ qNext = [q \in Pushers |-> 0]
  /\ qRes = [q \in Pushers |-> FALSE]
  /\ qSeenHead = [q \in Pushers |-> 1]
  /\ qAcc = << >>
  /\ BatchIdle
  /\ ShardIdle
  /\ LayoutIdle
  /\ AtomicIdle
  /\ DemoIdle
  /\ HarnessIdle

\* thread q calls rb.try_push(x)
Two_call(q) ==
  /\ qPc[q] = "idle"
  /\ Len(qAcc) < MaxPushTwo
  /\ \E x \in Values : qX' = [qX EXCEPT ![q] = x]
  /\ qPc' = [qPc EXCEPT ![q] = "load_head"]
  /\ UNCHANGED <<qH, qT, qNext, qRes, qSeenHead, qAcc, lastWriter>>
  /\ UNCHANGED <<ringVars, ghostVars, nonTwoVars>>

\* const std::size_t h = head.v.load(std::memory_order_relaxed);
\* head is stored by the other thread too: the load returns a store not
\* older than the newest this thread has seen
Two_try_push_load_head(q) ==
  /\ qPc[q] = "load_head"
  /\ \E m \in Load(headMsgs, qSeenHead[q], 1, SpscRingOrder.push_head_load) :
       /\ qH' = [qH EXCEPT ![q] = m.val]
       /\ qSeenHead' = [qSeenHead EXCEPT ![q] = m.seen]
  /\ qPc' = [qPc EXCEPT ![q] = "load_tail"]
  /\ UNCHANGED <<qX, qT, qNext, qRes, qAcc, lastWriter>>
  /\ UNCHANGED <<ringVars, ghostVars, nonTwoVars>>

\* const std::size_t t = tail.v.load(std::memory_order_acquire);
\* const std::size_t next = (h + 1) & mask;
Two_try_push_load_tail(q) ==
  /\ qPc[q] = "load_tail"
  /\ qT' = [qT EXCEPT ![q] = Stored(tailMsgs)]
  /\ qNext' = [qNext EXCEPT ![q] = next_index(qH[q])]
  /\ qPc' = [qPc EXCEPT ![q] = "check"]
  /\ UNCHANGED <<qX, qH, qRes, qSeenHead, qAcc, lastWriter>>
  /\ UNCHANGED <<ringVars, ghostVars, nonTwoVars>>

\* if (next == t) return false;
Two_try_push_full(q) ==
  /\ qPc[q] = "check"
  /\ push_full(qNext[q], qT[q])
  /\ qRes' = [qRes EXCEPT ![q] = FALSE]
  /\ qPc' = [qPc EXCEPT ![q] = "idle"]
  /\ UNCHANGED <<qX, qH, qT, qNext, qSeenHead, qAcc, lastWriter>>
  /\ UNCHANGED <<ringVars, ghostVars, nonTwoVars>>

\* buf[h] = x;   a slot last written by the other thread is written with
\* nothing ordering the two writes
Two_try_push_write_buf(q) ==
  /\ qPc[q] = "check"
  /\ ~push_full(qNext[q], qT[q])
  /\ buf' = [buf EXCEPT ![qH[q]] = qX[q]]
  /\ race' = (race \/ lastWriter[qH[q]] \notin {0, q})
  /\ lastWriter' = [lastWriter EXCEPT ![qH[q]] = q]
  /\ qPc' = [qPc EXCEPT ![q] = "publish"]
  /\ UNCHANGED <<qX, qH, qT, qNext, qRes, qSeenHead, qAcc>>
  /\ UNCHANGED <<ring, Capacity, headMsgs, tailMsgs>>
  /\ UNCHANGED <<wEpoch, rEpoch, pushedSeq, poppedSeq>>
  /\ UNCHANGED nonTwoVars

\* a try_push that returns false when head is no longer the h it loaded
Two_try_push_store_head_checked(q) ==
  /\ qPc[q] = "publish"
  /\ IF Stored(headMsgs) = qH[q]
       THEN /\ headMsgs' = Store(headMsgs, qNext[q], SpscRingOrder.push_head_store)
            /\ qAcc' = Append(qAcc, [by |-> q, val |-> qX[q], slot |-> qH[q]])
            /\ qRes' = [qRes EXCEPT ![q] = TRUE]
       ELSE /\ UNCHANGED <<headMsgs, qAcc>>
            /\ qRes' = [qRes EXCEPT ![q] = FALSE]
  /\ qSeenHead' = [qSeenHead EXCEPT ![q] = Len(headMsgs')]
  /\ qPc' = [qPc EXCEPT ![q] = "idle"]
  /\ UNCHANGED <<qX, qH, qT, qNext, lastWriter>>
  /\ UNCHANGED <<ring, Capacity, tailMsgs, buf>>
  /\ UNCHANGED <<ghostVars, nonTwoVars>>

\* head.v.store(next, std::memory_order_release); return true;
Two_try_push_store_head(q) ==
  /\ qPc[q] = "publish"
  /\ headMsgs' = Store(headMsgs, qNext[q], SpscRingOrder.push_head_store)
  /\ qAcc' = Append(qAcc, [by |-> q, val |-> qX[q], slot |-> qH[q]])
  /\ qRes' = [qRes EXCEPT ![q] = TRUE]
  /\ qSeenHead' = [qSeenHead EXCEPT ![q] = Len(headMsgs')]
  /\ qPc' = [qPc EXCEPT ![q] = "idle"]
  /\ UNCHANGED <<qX, qH, qT, qNext, lastWriter>>
  /\ UNCHANGED <<ring, Capacity, tailMsgs, buf>>
  /\ UNCHANGED <<ghostVars, nonTwoVars>>

NextTwo ==
  \/ \E q \in Pushers : Two_call(q)
  \/ \E q \in Pushers : Two_try_push_load_head(q)
  \/ \E q \in Pushers : Two_try_push_load_tail(q)
  \/ \E q \in Pushers : Two_try_push_full(q)
  \/ \E q \in Pushers : Two_try_push_write_buf(q)
  \/ \E q \in Pushers : Two_try_push_store_head(q)

SpecTwo == InitTwo /\ [][NextTwo]_vars

\* ------------------------------------------- BM_SPSC_Ring_Throughput
MaxCount == 5             \* items per run: 0 .. MaxCount
MaxBurst == 2             \* the 8 of  k < 8, cut down to the bound

\* bits of the uint32_t that static_cast<uint32_t>(i) keeps, cut down
Uint32Bits == 2

\* static_cast<uint32_t>(i)
static_cast_uint32(i) == i % Pow2(Uint32Bits)

\* what producer() and consumer() leave alone besides the ring and the
\* locals of try_push and try_pop
nonHarnessVars == <<ctorVars, batchVars, shardVars, layoutVars, atomicVars,
                    demoVars, twoVars>>

\* Ring rb{}; std::atomic<bool> start{false}; uint64_t checksum = 0;
\* std::thread tp(producer<Ring>, ...); std::thread tc(consumer<Ring>, ...);
InitHarness ==
  /\ \E C \in Capacities :
       /\ RingFresh("SpscRing", C)
       /\ cand = C /\ trivial = TRUE /\ built = "accepted"
  /\ count \in 0 .. MaxCount
  /\ hStart = FALSE
  /\ hpPc = "wait" /\ hpI = 0 /\ hpK = 0
  /\ hcPc = "wait" /\ hcI = 0 /\ hcK = 0 /\ hcSum = 0
  /\ checksum = 0
  /\ BatchIdle
  /\ ShardIdle
  /\ LayoutIdle
  /\ AtomicIdle
  /\ DemoIdle
  /\ TwoIdle

\* start.store(true, std::memory_order_release);
harness_start ==
  /\ hpPc # "none"
  /\ ~hStart
  /\ hStart' = TRUE
  /\ UNCHANGED <<count, hpPc, hpI, hpK, hcPc, hcI, hcK, hcSum, checksum>>
  /\ UNCHANGED <<ringVars, prodVars, consVars, ghostVars, nonHarnessVars>>

\* producer: while (!start_flag->load(acquire)) {} left;  std::size_t i = 0;
producer_started ==
  /\ hpPc = "wait"
  /\ hStart
  /\ hpI' = 0
  /\ hpPc' = "while"
  /\ UNCHANGED <<hStart, count, hpK, hcPc, hcI, hcK, hcSum, checksum>>
  /\ UNCHANGED <<ringVars, prodVars, consVars, ghostVars, nonHarnessVars>>

\* producer: while (i < count) {  for (int k = 0; ...   or return
producer_while ==
  /\ hpPc = "while"
  /\ IF hpI < count
       THEN hpK' = 0 /\ hpPc' = "for"
       ELSE hpK' = hpK /\ hpPc' = "done"
  /\ UNCHANGED <<hStart, count, hpI, hcPc, hcI, hcK, hcSum, checksum>>
  /\ UNCHANGED <<ringVars, prodVars, consVars, ghostVars, nonHarnessVars>>

\* producer: k < 8 && i < count:  rb->try_push(static_cast<uint32_t>(i))
\* or the end of the for loop:  if (i < count) std::this_thread::yield();
producer_for ==
  /\ hpPc = "for"
  /\ pPc = "idle"
  /\ IF hpK < MaxBurst /\ hpI < count
       THEN /\ pX' = static_cast_uint32(hpI)
            /\ pPc' = "load_head"
            /\ hpPc' = "try"
       ELSE /\ UNCHANGED <<pX, pPc>>
            /\ hpPc' = "while"
  /\ UNCHANGED <<pH, pT, pNext, pRes, pSeenTail, pKnowsC>>
  /\ UNCHANGED <<hStart, count, hpI, hpK, hcPc, hcI, hcK, hcSum, checksum>>
  /\ UNCHANGED <<ringVars, consVars, ghostVars, nonHarnessVars>>

\* a producer that counts a refused value as pushed
producer_tried_skip ==
  /\ hpPc = "try"
  /\ pPc = "idle"
  /\ hpI' = hpI + 1 /\ hpK' = hpK + 1 /\ hpPc' = "for"
  /\ UNCHANGED <<hStart, count, hcPc, hcI, hcK, hcSum, checksum>>
  /\ UNCHANGED <<ringVars, prodVars, consVars, ghostVars, nonHarnessVars>>

\* producer: if (rb->try_push(...)) { ++i; } else { break; }   and ++k
producer_tried ==
  /\ hpPc = "try"
  /\ pPc = "idle"
  /\ IF pRes
       THEN hpI' = hpI + 1 /\ hpK' = hpK + 1 /\ hpPc' = "for"
       ELSE hpI' = hpI /\ hpK' = hpK /\ hpPc' = "while"
  /\ UNCHANGED <<hStart, count, hcPc, hcI, hcK, hcSum, checksum>>
  /\ UNCHANGED <<ringVars, prodVars, consVars, ghostVars, nonHarnessVars>>

\* consumer: while (!start_flag->load(acquire)) {} left;  i = 0; sum = 0; val{}
consumer_started ==
  /\ hcPc = "wait"
  /\ hStart
  /\ hcI' = 0 /\ hcSum' = 0
  /\ cOut' = 0
  /\ hcPc' = "while"
  /\ UNCHANGED <<cPc, cT, cH, cRes, cSeenHead, cKnowsP>>
  /\ UNCHANGED <<hStart, count, hpPc, hpI, hpK, hcK, checksum>>
  /\ UNCHANGED <<ringVars, prodVars, ghostVars, nonHarnessVars>>

\* consumer: while (i < count) {  for (int k = 0; ...   or  *checksum = sum;
consumer_while ==
  /\ hcPc = "while"
  /\ IF hcI < count
       THEN hcK' = 0 /\ hcPc' = "for" /\ checksum' = checksum
       ELSE hcK' = hcK /\ hcPc' = "done" /\ checksum' = hcSum
  /\ UNCHANGED <<hStart, count, hpPc, hpI, hpK, hcI, hcSum>>
  /\ UNCHANGED <<ringVars, prodVars, consVars, ghostVars, nonHarnessVars>>

\* consumer: k < 8 && i < count:  rb->try_pop(val)
\* or the end of the for loop:  if (i < count) std::this_thread::yield();
consumer_for ==
  /\ hcPc = "for"
  /\ cPc = "idle"
  /\ IF hcK < MaxBurst /\ hcI < count
       THEN cPc' = "load_tail" /\ hcPc' = "try"
       ELSE cPc' = cPc /\ hcPc' = "while"
  /\ UNCHANGED <<cT, cH, cOut, cRes, cSeenHead, cKnowsP>>
  /\ UNCHANGED <<hStart, count, hpPc, hpI, hpK, hcI, hcK, hcSum, checksum>>
  /\ UNCHANGED <<ringVars, prodVars, ghostVars, nonHarnessVars>>

\* consumer: if (rb->try_pop(val)) { sum += val; ++i; } else { break; }  and ++k
consumer_tried ==
  /\ hcPc = "try"
  /\ cPc = "idle"
  /\ IF cRes
       THEN /\ hcSum' = hcSum + cOut
            /\ hcI' = hcI + 1 /\ hcK' = hcK + 1 /\ hcPc' = "for"
       ELSE /\ hcSum' = hcSum
            /\ hcI' = hcI /\ hcK' = hcK /\ hcPc' = "while"
  /\ UNCHANGED <<hStart, count, hpPc, hpI, hpK, checksum>>
  /\ UNCHANGED <<ringVars, prodVars, consVars, ghostVars, nonHarnessVars>>

\* the steps of the producer thread
ProducerThread ==
  \/ producer_started
  \/ producer_while
  \/ producer_for
  \/ try_push_load_head
  \/ try_push_load_tail
  \/ try_push_full
  \/ try_push_write_buf
  \/ try_push_store_head
  \/ producer_tried

\* the steps of the consumer thread
ConsumerThread ==
  \/ consumer_started
  \/ consumer_while
  \/ consumer_for
  \/ try_pop_load_tail
  \/ try_pop_load_head
  \/ try_pop_empty
  \/ try_pop_read_buf
  \/ try_pop_store_tail
  \/ consumer_tried

NextHarness ==
  \/ harness_start
  \/ producer_started
  \/ producer_while
  \/ producer_for
  \/ try_push_load_head
  \/ try_push_load_tail
  \/ try_push_full
  \/ try_push_write_buf
  \/ try_push_store_head
  \/ producer_tried
  \/ consumer_started
  \/ consumer_while
  \/ consumer_for
  \/ try_pop_load_tail
  \/ try_pop_load_head
  \/ try_pop_empty
  \/ try_pop_read_buf
  \/ try_pop_store_tail
  \/ consumer_tried

\* both threads keep being scheduled, and a thread that keeps loading an
\* index comes to load its latest store
SpecHarness ==
  /\ InitHarness
  /\ [][NextHarness]_vars
  /\ WF_vars(ProducerThread)
  /\ WF_vars(ConsumerThread)
  /\ SF_vars(SC_try_push_load_tail)
  /\ SF_vars(SC_try_pop_load_head)

\* ---------------------------------------------------------------- claims
IsPrefix(s, t) == Len(s) <= Len(t) /\ \A i \in 1 .. Len(s) : s[i] = t[i]

\* live elements: accepted by a try_push and not yet returned by a try_pop
Live == Len(pushedSeq) - Len(poppedSeq)

\* the slots tail .. head-1 (mod Capacity) of the stored indices
LiveSlots == { (tail + i) % Capacity : i \in 0 .. ((head - tail) % Capacity) - 1 }

\* the producer has passed the full check for slot pH and has not yet
\* stored the new head (the slot write is the step that leaves "check")
ProducerInSlot == (pPc = "check" /\ pNext # pT) \/ pPc = "publish"

\* the consumer has passed the emptiness check for slot cT and has not yet
\* stored the new tail (the slot read is the step that leaves "check")
ConsumerInSlot == (cPc = "check" /\ cT # cH) \/ cPc = "retire"

PInCall == pPc \in {"load_head", "load_tail", "check", "publish"}
CInCall == cPc \in {"load_tail", "load_head", "check", "retire"}

\* C1: FIFO order - in every interleaving of one producer and one consumer
\* the values returned by successful try_pop calls are at every moment a
\* prefix of the values accepted by successful try_push calls.
C1_FifoPrefix == IsPrefix(poppedSeq, pushedSeq)

\* C1 witness: three values popped, not all equal, out of a ring of
\* capacity 2 (both indices have wrapped) while a fourth push is under way
C1_Witness ==
  /\ Capacity = 2
  /\ Len(poppedSeq) = 3
  /\ poppedSeq[1] # poppedSeq[2]
  /\ pPc = "publish"

\* C2: slot partition - while try_push is between passing its full check
\* and storing the new head for slot h, slot h is not one of the live slots
\* tail..head-1 and the consumer is not between its emptiness check and its
\* tail store for the same slot.
C2_SlotPartition ==
  ProducerInSlot =>
    /\ pH \notin LiveSlots
    /\ ~(ConsumerInSlot /\ cT = pH)

\* C2 witness: producer and consumer are inside their slot accesses at the
\* same time, on different slots, the producer on a slot used before
C2_Witness ==
  /\ pPc = "publish"
  /\ cPc = "retire"
  /\ cT # pH
  /\ rEpoch[pH] > 1

\* C3: capacity invariant - the number of live elements never exceeds
\* Capacity - 1.
C3_CapacityInvariant == Live <= Capacity - 1

\* C3 witness: a ring of capacity 4 holding 3 live elements after a pop
C3_Witness ==
  /\ Capacity = 4
  /\ Live = 3
  /\ Len(poppedSeq) >= 1

\* C4: race absence under release/acquire - every read of buf[t] by try_pop
\* happens-after the try_push write of that slot, every write of buf[h] by
\* try_push happens-after the try_pop read of the slot's previous value, and
\* no data race on a slot ever occurs.
C4_NoRace ==
  /\ ~race
  /\ (cPc = "check" /\ cT # cH) => ~ReadRaces(cT)
  /\ (pPc = "check" /\ pNext # pT) => ~WriteRaces(pH)
  /\ cPc = "retire" => (wEpoch[cT] <= cKnowsP /\ cOut = buf[cT])

\* C4 witness: the producer has overwritten a slot the consumer had read
\* before, and the consumer has read a slot the producer had written
C4_Witness ==
  /\ pPc = "publish"
  /\ rEpoch[pH] > 1
  /\ cPc = "retire"
  /\ wEpoch[cT] > 1
  /\ ~race

\* C5: race presence in BadRing - with relaxed index accesses no load of
\* head ever orders the consumer after the producer, so whenever the
\* consumer has observed an advanced head and reads buf[t], the read is not
\* happens-after the producer's write of buf[t]: a data race.
C5_BadRingRaces ==
  /\ cKnowsP = 1
  /\ (cPc = "check" /\ cT # cH) => ReadRaces(cT)
  /\ cPc = "retire" => race

\* C5 witness: the consumer of BadRing saw the head advance, read the slot
\* in a race and did not get the value the producer wrote
C5_Witness ==
  /\ ring = "BadRing"
  /\ cPc = "retire"
  /\ race
  /\ cSeenHead > 1
  /\ cOut # buf[cT]

\* C6 (as claimed): when both threads have stopped calling the ring, the
\* number of successful try_pop calls equals the number of successful
\* try_push calls.
C6_Original ==
  (pPc = "stopped" /\ cPc = "stopped") => Len(poppedSeq) = Len(pushedSeq)

\* C6 (amended): when both threads have stopped calling the ring, the
\* number of successful try_pop calls equals the number of successful
\* try_push calls minus the number of elements left in the ring,
\* (head - tail) mod Capacity; the two counts are equal exactly when the
\* ring is left empty.
C6_NoLossNoDup ==
  (pPc = "stopped" /\ cPc = "stopped") =>
    /\ Len(poppedSeq) = Len(pushedSeq) - ((head - tail) % Capacity)
    /\ (Len(poppedSeq) = Len(pushedSeq)) <=> (head = tail)

\* C6 witness: both threads stopped with elements left in the ring
C6_Witness ==
  /\ pPc = "stopped"
  /\ cPc = "stopped"
  /\ Len(poppedSeq) >= 1
  /\ Len(pushedSeq) > Len(poppedSeq)

\* C7: failure leaves state unchanged - the steps of a try_push that returns
\* false (its two loads and the return) change neither head, tail nor any
\* slot; the steps of a try_pop that returns false change neither head, tail,
\* any slot nor the caller's out; a call returns false straight from its
\* check and never goes back to its loads (no internal retry).
C7_FailureNoChange ==
  [][ /\ ( \/ (pPc \in {"load_head", "load_tail"} /\ pPc' # pPc)
           \/ (pPc = "check" /\ pPc' = "idle") )
         => /\ UNCHANGED <<headMsgs, tailMsgs, buf>>
            /\ (pPc' = "idle" => ~pRes')
      /\ ( \/ (cPc \in {"load_tail", "load_head"} /\ cPc' # cPc)
           \/ (cPc = "check" /\ cPc' = "idle") )
         => /\ UNCHANGED <<headMsgs, tailMsgs, buf, cOut>>
            /\ (cPc' = "idle" => ~cRes')
      /\ (pPc' = "load_head" /\ pPc # "load_head") => pPc = "idle"
      /\ (cPc' = "load_tail" /\ cPc # "load_tail") => cPc = "idle"
    ]_vars

\* C7 witness: after accepted pushes and successful pops, a try_push has
\* returned false and a try_pop has returned false
C7_Witness ==
  /\ pPc = "idle" /\ ~pRes
  /\ cPc = "idle" /\ ~cRes
  /\ Len(pushedSeq) >= 1
  /\ Len(poppedSeq) >= 1
  /\ cOut # 0

\* C8 (as claimed): a try_push call returns false exactly when
\* (head+1) mod Capacity == tail for the ring's stored indices at the moment
\* the call returns.  The stored head is taken before the call's own store
\* (a push that fills the ring returns true and leaves the ring full, which
\* is not what the claim is about); the stored tail is the one at the return.
C8_Original ==
  [][ (PInCall /\ pPc' = "idle")
        => ((pRes' = FALSE) <=> (BitAnd(head + 1, mask) = tail')) ]_vars

\* C8 (amended): a try_push call returns false exactly when
\* (head+1) mod Capacity == t, with head the stored head when the call
\* decides and t the value its own load of tail returned; the stored tail
\* may have advanced since that load, so the ring may no longer be full when
\* the call returns false.  A call that returns true stored its head while
\* (head+1) mod Capacity differed from the stored tail.
C8_FullDetection ==
  [][ (PInCall /\ pPc' = "idle")
        => /\ (pRes' = FALSE) <=> (BitAnd(head + 1, mask) = pT)
           /\ (pRes' = TRUE) => (BitAnd(head + 1, mask) # tail)
           /\ \E i \in 1 .. Len(tailMsgs) : tailMsgs[i].val = pT ]_vars

\* C8 witness: a try_push has returned false although the ring is no
\* longer full, the consumer having popped since the producer's tail load
C8_Witness ==
  /\ pPc = "idle" /\ ~pRes
  /\ Len(pushedSeq) = Capacity - 1
  /\ Len(poppedSeq) = 1
  /\ BitAnd(head + 1, mask) # tail

\* n is a power of two
IsPowerOfTwo(n) == \E k \in 0 .. SizeBits : n = Pow2(k)

\* C9: misconfiguration is rejected - the capacities SpscRing accepts are
\* exactly the powers of two that are >= 2; every other capacity, 0 and 1
\* included, fails a static_assert.
C9_Original ==
  /\ built = "accepted" => (IsPowerOfTwo(cand) /\ cand >= 2)
  /\ (built = "rejected" /\ trivial) => ~(IsPowerOfTwo(cand) /\ cand >= 2)

\* steps a try_push (try_pop) has left before it returns
PRank(pc) ==
  CASE pc = "load_head" -> 4
    [] pc = "load_tail" -> 3
    [] pc = "check"     -> 2
    [] pc = "publish"   -> 1
    [] OTHER            -> 0

CRank(pc) ==
  CASE pc = "load_tail" -> 4
    [] pc = "load_head" -> 3
    [] pc = "check"     -> 2
    [] pc = "retire"    -> 1
    [] OTHER            -> 0

\* C10: non-blocking - inside a try_push or try_pop the calling thread can
\* always take its next step whatever the state of the other thread (no
\* wait), and every step of a call strictly lowers the number of steps left
\* (no loop), so a call returns within four of its own steps.
C10_NonBlocking ==
  /\ [](PInCall => ENABLED ProducerStep)
  /\ [](CInCall => ENABLED ConsumerStep)
  /\ [][ /\ (PInCall /\ pPc' # pPc) => PRank(pPc') < PRank(pPc)
         /\ (CInCall /\ cPc' # cPc) => CRank(cPc') < CRank(cPc) ]_vars

\* C10 witness: the consumer has stopped for good with the ring full, and a
\* later try_push has run to its end and returned false
C10_Witness ==
  /\ cPc = "stopped"
  /\ pPc = "idle" /\ ~pRes
  /\ Live = Capacity - 1
  /\ Len(poppedSeq) >= 1
  /\ Capacity = 4

\* C11: used from one thread, a push succeeds exactly when fewer than
\* Capacity - 1 elements are in the ring: from a fresh ring the first
\* Capacity - 1 pushes succeed and the next fails, and after k successful
\* pops exactly k further pushes succeed, so a push fails if and only if
\* the accepted pushes number Capacity - 1 more than the successful pops;
\* each successful pop returns the oldest value still in the ring.
C11_UsableCapacity ==
  [][/\ (PInCall /\ pPc' = "idle")
       => /\ (pRes' = FALSE) <=> (Len(pushedSeq) = Capacity - 1 + Len(poppedSeq))
          /\ (pRes' = TRUE) <=> (Len(pushedSeq) < Capacity - 1 + Len(poppedSeq))
          /\ Len(pushedSeq') <= Capacity - 1 + Len(poppedSeq)
     /\ (CInCall /\ cPc' = "idle" /\ cRes')
          => poppedSeq' = Append(poppedSeq, pushedSeq[Len(poppedSeq) + 1])]_vars

\* the ring of capacity 4 has taken 1, 2, 3 and refused the fourth push,
\* then after two pops takes 4 and 5 and refuses again
C11_Witness ==
  /\ Capacity = 4
  /\ pushedSeq = <<1, 2, 3, 4, 5>>
  /\ poppedSeq = <<1, 2>>
  /\ pPc = "idle" /\ pRes = FALSE

\* C12: pushing and popping one element at a time, every successful pop
\* returns the value of the push with the same position in the run, and
\* the stored indices are the push and pop counts modulo Capacity, so the
\* output is the input also after the indices have wrapped to zero.
C12_WrapAround ==
  /\ poppedSeq = SubSeq(pushedSeq, 1, Len(poppedSeq))
  /\ \A i \in 1 .. Len(poppedSeq) : poppedSeq[i] = i
  /\ head = Len(pushedSeq) % Capacity
  /\ tail = Len(poppedSeq) % Capacity
  /\ ~race

\* more elements than the ring has slots went through it, in order
C12_Witness ==
  /\ Capacity = 4
  /\ Len(poppedSeq) > 2 * Capacity
  /\ poppedSeq = pushedSeq
  /\ tail = 1

\* C18 as stated: the live count is (head - tail) modulo 2^width of the
\* index type, computed on the stored head and tail, and is at most
\* Capacity - 1.
C18_Original ==
  /\ Live = SizeSub(head, tail)
  /\ SizeSub(head, tail) <= Capacity - 1

\* C18: the stored head and tail are already reduced by the mask, so the
\* number of pushed-but-not-popped elements is (head - tail) modulo
\* Capacity, and it never exceeds Capacity - 1.
C18_LiveCount ==
  /\ Live = (head - tail) % Capacity
  /\ (head - tail) % Capacity <= Capacity - 1
  /\ head \in 0 .. Capacity - 1
  /\ tail \in 0 .. Capacity - 1

\* head has wrapped to 0 while tail is still at the last slot
C18_Witness ==
  /\ Capacity = 4
  /\ head = 0 /\ tail = 3
  /\ Live = 1

\* C19: the stored head changes only in the step of try_push that returns
\* true, by one slot modulo Capacity; the stored tail changes only in the
\* step of try_pop that returns true, by one slot modulo Capacity; no step
\* of try_push writes tail, and no step of try_pop writes head or buf.
C19_SingleWriter ==
  [][/\ headMsgs' # headMsgs
          => /\ pPc = "publish" /\ pPc' = "idle" /\ pRes' = TRUE
             /\ cPc' = cPc
             /\ headMsgs' = Append(headMsgs, Last(headMsgs'))
             /\ head' = (head + 1) % Capacity
     /\ tailMsgs' # tailMsgs
          => /\ cPc = "retire" /\ cPc' = "idle" /\ cRes' = TRUE
             /\ pPc' = pPc
             /\ tailMsgs' = Append(tailMsgs, Last(tailMsgs'))
             /\ tail' = (tail + 1) % Capacity
     /\ pPc' # pPc => tailMsgs' = tailMsgs
     /\ cPc' # cPc => headMsgs' = headMsgs /\ buf' = buf]_vars

\* both indices have been stored to three times and have wrapped; the
\* last push returned false and the last pop returned true
C19_Witness ==
  /\ Capacity = 2
  /\ Len(headMsgs) = 4 /\ Len(tailMsgs) = 4
  /\ pPc = "idle" /\ pRes = FALSE
  /\ cPc = "idle" /\ cRes = TRUE

Min(a, b) == IF a <= b THEN a ELSE b

\* C13: when push_many(xs, n) returns k, k <= n, the values added to the
\* ring since the call are xs[0..k) in order, try_push was called once
\* per accepted element and once more, for xs[k], exactly when k < n, and
\* that last call returned false; if the producer had seen every earlier
\* pop when it called and no pop completed during the call, k is
\* min(n, Capacity - 1 - live).
C13_PushMany ==
  /\ pmPc = "loop"
       => SubSeq(pushedSeq, pmAt.pushes + 1, Len(pushedSeq)) = SubSeq(pmXs, 1, pushed)
  /\ pmPc = "returned"
       => /\ pmRet <= pmN /\ pmRet = pushed
          /\ Len(pushedSeq) = pmAt.pushes + pmRet
          /\ SubSeq(pushedSeq, pmAt.pushes + 1, Len(pushedSeq)) = SubSeq(pmXs, 1, pmRet)
          /\ pmAt.tries = IF pmRet < pmN THEN pmRet + 1 ELSE pmRet
          /\ pmRet < pmN => ~pRes
          /\ (pmAt.current /\ Len(tailMsgs) = pmAt.tails)
               => pmRet = Min(pmN, Capacity - 1 - (pmAt.pushes - pmAt.pops))

\* push_many of two elements into a ring with one free slot returns 1
C13_Witness ==
  /\ pmPc = "returned"
  /\ Capacity = 4
  /\ pmAt.pushes - pmAt.pops = 2
  /\ pmAt.current /\ Len(tailMsgs) = pmAt.tails
  /\ pmN = 2 /\ pmRet = 1
  /\ pmAt.tries = 2

\* C14: when pop_many(out, n) returns k, k <= n, out[0..k) holds the k
\* oldest elements of the ring in FIFO order, out[k..n) is as the caller
\* left it, try_pop was called once per popped element and once more
\* exactly when k < n; if the consumer had seen every earlier push when it
\* called and no push completed during the call, k is min(n, live).
C14_PopMany ==
  qmPc = "returned"
    => /\ qmRet <= qmN /\ qmRet = popped
       /\ Len(poppedSeq) = qmAt.pops + qmRet
       /\ SubSeq(qmXs, 1, qmRet) = SubSeq(pushedSeq, qmAt.pops + 1, qmAt.pops + qmRet)
       /\ \A i \in qmRet + 1 .. qmN : qmXs[i] = OutFill
       /\ qmAt.tries = IF qmRet < qmN THEN qmRet + 1 ELSE qmRet
       /\ qmRet < qmN => ~cRes
       /\ (qmAt.current /\ Len(headMsgs) = qmAt.heads)
            => qmRet = Min(qmN, qmAt.pushes - qmAt.pops)

\* pop_many of two elements from a ring holding one returns 1 and leaves
\* out[1] alone
C14_Witness ==
  /\ qmPc = "returned"
  /\ qmAt.pushes - qmAt.pops = 1
  /\ qmAt.current /\ Len(headMsgs) = qmAt.heads
  /\ qmN = 2 /\ qmRet = 1
  /\ qmXs = <<qmAt.pops + 1, OutFill>>

C16_ShardedSum ==
  /\ mPc = "done" => sum = threads * iters_per_thread
  /\ mPc = "sum" => \A t \in Workers : slots[t] = iters_per_thread
  /\ \A t \in Workers : wPc[t] = "done" => slots[t] = iters_per_thread

\* three workers with two increments each: the reduction gives 6
C16_Witness ==
  /\ bench = "SharedSlot"
  /\ mPc = "done"
  /\ threads = 3 /\ iters_per_thread = 2
  /\ sum = 6

\* C17: every slot is read and written by its own worker only, and by
\* the main thread only once every worker has finished and has been
\* joined, so no slot is accessed by two threads concurrently.
C17_ShardOwnership ==
  /\ \A s \in Workers : touched[s] \subseteq {s, MainThread}
  /\ \A s \in Workers :
       MainThread \in touched[s]
         => /\ joined = Workers
            /\ \A t \in Workers : wPc[t] = "done"
  /\ mPc \in {"sum", "done"} => \A t \in Workers : wPc[t] = "done"

\* the main thread has read all the shards of a three-thread run, each
\* of which its own worker incremented
C17_Witness ==
  /\ bench = "PaddedCounter"
  /\ threads = 3 /\ iters_per_thread >= 1
  /\ \A s \in Workers : touched[s] = {s, MainThread}

\* address of the counter field (offset 0) of element i of the vector
CounterAddr(i) == data + i * sizeofSlot

\* the cache lines that element i of the vector occupies
ShardLines(i) ==
  { a \div CLS : a \in data + i * sizeofSlot .. data + (i + 1) * sizeofSlot - 1 }

\* C20: PaddedSlot and PaddedCounter compile with sizeof a multiple of CLS
\* and alignof at least CLS, and in a vector of them the counter fields of
\* two distinct elements are a non-zero multiple of CLS bytes apart and
\* the two elements have no cache line in common.
C20_CacheIsolation ==
  slotType \in {"PaddedSlot", "PaddedCounter"}
    => /\ lyPc # "declared"
            => /\ lyPc # "rejected"
               /\ sizeofSlot % CLS = 0
               /\ alignofSlot >= CLS
       /\ lyPc = "allocated"
            => \A i, j \in 0 .. nslots - 1 :
                 i # j => /\ (CounterAddr(j) - CounterAddr(i)) % CLS = 0
                          /\ CounterAddr(j) # CounterAddr(i)
                          /\ ShardLines(i) \cap ShardLines(j) = {}

\* three PaddedSlot of 64 bytes in a vector that starts at address 64
C20_Witness ==
  /\ slotType = "PaddedSlot"
  /\ lyPc = "allocated"
  /\ CLS = 64 /\ sizeofSlot = 64 /\ alignofSlot = 64
  /\ nslots = 3 /\ data = 64

C29_ElementAccounting ==
  /\ (Len(headMsgs) - 1) - (Len(tailMsgs) - 1) = (head - tail) % Capacity
  /\ Len(headMsgs) - 1 = Len(pushedSeq)
  /\ Len(tailMsgs) - 1 = Len(poppedSeq)
  /\ \A i \in 0 .. ((head - tail) % Capacity) - 1 :
       buf[(tail + i) % Capacity] = pushedSeq[Len(poppedSeq) + 1 + i]

\* three live values lie across the wrap of the capacity-4 ring
C29_Witness ==
  /\ Capacity = 4
  /\ tail = 2 /\ head = 1
  /\ Len(headMsgs) = 6 /\ Len(tailMsgs) = 3
  /\ pushedSeq[3] # pushedSeq[4]

\* C27 as stated: a try_push that fails found the ring full at its load of
\* tail, and a try_pop that fails found it empty at its load of head, the
\* contents of the ring being those of the head and tail stores made so
\* far.
C27_Original ==
  [][/\ (pPc = "load_tail" /\ pPc' = "check" /\ push_full(pNext', pT'))
          => Live = Capacity - 1
     /\ (cPc = "load_head" /\ cPc' = "check" /\ pop_empty(cT', cH'))
          => Live = 0]_vars

\* C27: successful calls act as a FIFO queue of at most Capacity - 1
\* elements in the order of their index stores; a try_push about to
\* return false has read a stored tail with which the ring is full,
\* counting the pops up to that store only, and a try_pop about to return
\* false has read a stored head with which the ring is empty, counting the
\* pushes up to that store only; the value read is never older than one
\* the thread has read before and may be older than the latest store.
C27_Linearizable ==
  /\ IsPrefix(poppedSeq, pushedSeq)
  /\ Live \in 0 .. Capacity - 1
  /\ pSeenTail \in 1 .. Len(tailMsgs)
  /\ cSeenHead \in 1 .. Len(headMsgs)
  /\ pPc = "check"
       => /\ pT = tailMsgs[pSeenTail].val
          /\ push_full(pNext, pT)
               <=> Len(pushedSeq) - (pSeenTail - 1) = Capacity - 1
  /\ cPc = "check"
       => /\ cH = headMsgs[cSeenHead].val
          /\ pop_empty(cT, cH)
               <=> (cSeenHead - 1) - Len(poppedSeq) = 0

\* a try_push is about to return false on a tail older than the stored
\* one, while the ring holds fewer than Capacity - 1 elements
C27_Witness ==
  /\ pPc = "check" /\ push_full(pNext, pT)
  /\ pSeenTail < Len(tailMsgs)
  /\ Live < Capacity - 1
  /\ cPc = "idle"

\* C30: in SpscRing and in BadRing every value stored to head or tail lies
\* in 0 .. Capacity - 1, so every value loaded from them does, and the
\* slot accesses buf[h] of try_push and buf[t] of try_pop, which use the
\* loaded value as it is, are within buf.
C30_IndicesInRange ==
  /\ DOMAIN buf = 0 .. Capacity - 1
  /\ \A i \in 1 .. Len(headMsgs) : headMsgs[i].val \in 0 .. Capacity - 1
  /\ \A i \in 1 .. Len(tailMsgs) : tailMsgs[i].val \in 0 .. Capacity - 1
  /\ pH \in DOMAIN buf /\ pT \in DOMAIN buf /\ pNext \in DOMAIN buf
  /\ cT \in DOMAIN buf /\ cH \in DOMAIN buf
  /\ pPc \in {"check", "publish"} => pH = head
  /\ cPc \in {"check", "retire"} => cT = tail

\* BadRing's head has wrapped from Capacity - 1 to 0 and its consumer is
\* about to read the last slot
C30_Witness ==
  /\ ring = "BadRing"
  /\ Len(headMsgs) = 3 /\ head = 0
  /\ cPc = "check" /\ cT = Capacity - 1 /\ cT # cH

\* what a step of try_push does to its locals, its result and the ring
\* when every load returns the latest store: one relation for both rings
ScPushStep ==
  CASE pPc = "idle" ->
         /\ pPc' = "load_head"
         /\ head' = head /\ tail' = tail /\ buf' = buf
    [] pPc = "load_head" ->
         /\ pPc' = "load_tail" /\ pH' = head
         /\ head' = head /\ tail' = tail /\ buf' = buf
    [] pPc = "load_tail" ->
         /\ pPc' = "check" /\ pT' = tail /\ pNext' = (pH + 1) % Capacity
         /\ head' = head /\ tail' = tail /\ buf' = buf
    [] pPc = "check" ->
         IF (pH + 1) % Capacity = pT
         THEN /\ pPc' = "idle" /\ pRes' = FALSE
              /\ head' = head /\ tail' = tail /\ buf' = buf
         ELSE /\ pPc' = "publish"
              /\ buf' = [buf EXCEPT ![pH] = pX]
              /\ head' = head /\ tail' = tail
    [] pPc = "publish" ->
         /\ pPc' = "idle" /\ pRes' = TRUE
         /\ head' = (pH + 1) % Capacity /\ tail' = tail /\ buf' = buf
    [] OTHER -> FALSE

\* the same for try_pop
ScPopStep ==
  CASE cPc = "idle" ->
         /\ cPc' = "load_tail"
         /\ head' = head /\ tail' = tail /\ buf' = buf /\ cOut' = cOut
    [] cPc = "load_tail" ->
         /\ cPc' = "load_head" /\ cT' = tail
         /\ head' = head /\ tail' = tail /\ buf' = buf /\ cOut' = cOut
    [] cPc = "load_head" ->
         /\ cPc' = "check" /\ cH' = head
         /\ head' = head /\ tail' = tail /\ buf' = buf /\ cOut' = cOut
    [] cPc = "check" ->
         IF cT = cH
         THEN /\ cPc' = "idle" /\ cRes' = FALSE /\ cOut' = cOut
              /\ head' = head /\ tail' = tail /\ buf' = buf
         ELSE /\ cPc' = "retire" /\ cOut' = buf[cT]
              /\ head' = head /\ tail' = tail /\ buf' = buf
    [] cPc = "retire" ->
         /\ cPc' = "idle" /\ cRes' = TRUE /\ cOut' = cOut
         /\ tail' = (cT + 1) % Capacity /\ head' = head /\ buf' = buf
    [] OTHER -> FALSE

\* C21: with every load returning the latest store, each step of
\* BadRing::try_push / try_pop and each step of SpscRing::try_push /
\* try_pop changes the locals, the result, head, tail and the slots by one
\* and the same function of the state before the step, so from equal
\* states and for equal call sequences the two rings return the same
\* results and leave the same head, tail and slot contents.
C21_SameUnderSC ==
  [][/\ pPc' # pPc => ScPushStep
     /\ cPc' # cPc => ScPopStep
     /\ ring' = ring /\ Capacity' = Capacity]_vars

\* BadRing has taken two values, refused a third and given one back
C21_Witness ==
  /\ ring = "BadRing"
  /\ Capacity = 2
  /\ Len(pushedSeq) = 2 /\ poppedSeq = <<pushedSeq[1]>>
  /\ pPc = "idle" /\ pRes = FALSE
  /\ cPc = "idle" /\ cRes = TRUE
  /\ head = 0 /\ tail = 1

\* C23: in BM_SharedAtomicCounter the value shared.load() returns after
\* every thread has been joined is threads * iters_per_thread, whatever the
\* order in which the threads' fetch_add(1) calls took effect.
C23_NoLostIncrement ==
  (bench = "SharedAtomic" /\ mPc = "done") => loaded = threads * iters_per_thread

\* three threads of two increments each have been joined and 6 was loaded
C23_Witness ==
  /\ bench = "SharedAtomic" /\ mPc = "done"
  /\ threads = MaxThreads /\ iters_per_thread = MaxIters
  /\ joined = 0 .. threads - 1
  /\ loaded = MaxThreads * MaxIters
  /\ Len(shared) = MaxThreads * MaxIters + 1

C25_RelaxedRaces ==
  build = "relaxed" =>
    /\ rdPc = "read_data" => (flag[rSeen].val = 1 /\ dataBy = "writer" /\ ~DataOrdered)
    /\ rdPc = "done" => (demoRace /\ rdX \in {0, 42})

\* the reader read flag == 1, then read data as 0 although 42 was written
C25_Witness ==
  /\ build = "relaxed"
  /\ rdPc = "done" /\ flag[rSeen].val = 1
  /\ demoData = 42 /\ rdX = 0
  /\ demoRace

\* C22: try_push has no check of who calls it. Called by two threads on
\* one ring, a call that finds next # t for the h and t it loaded writes
\* buf[h], stores head = next and returns true whatever the other thread
\* has done in between; a call is refused only when next = t. So two calls
\* that loaded the same h both return true, head ends one slot after h and
\* the slot holds the value written last: the other accepted value is lost.
C22_NoRoleCheck ==
  [][\A q \in Pushers :
       /\ (qPc[q] = "check" /\ qPc'[q] # "check") =>
            IF qNext[q] = qT[q]
            THEN qPc'[q] = "idle" /\ ~qRes'[q] /\ buf' = buf /\ head' = head
            ELSE qPc'[q] = "publish" /\ buf'[qH[q]] = qX[q] /\ head' = head
       /\ (qPc[q] = "publish" /\ qPc'[q] # "publish") =>
            /\ qPc'[q] = "idle" /\ qRes'[q]
            /\ head' = qNext[q]
            /\ qAcc' = Append(qAcc, [by |-> q, val |-> qX[q], slot |-> qH[q]])]_vars

\* both threads' calls returned true for different values, head advanced
\* by one slot only and slot 0 holds the second value
C22_Witness ==
  /\ Len(qAcc) = 2
  /\ qAcc[1].by # qAcc[2].by /\ qAcc[1].val # qAcc[2].val
  /\ qAcc[1].slot = 0 /\ qAcc[2].slot = 0
  /\ qRes[1] /\ qRes[2] /\ qPc[1] = "idle" /\ qPc[2] = "idle"
  /\ head = 1 /\ tail = 0
  /\ buf[0] = qAcc[2].val
  /\ \A s \in 0 .. Capacity - 1 : buf[s] # qAcc[1].val

\* the sum of i for i in 0 .. n-1
SumBelow(n) == (n * (n - 1)) \div 2

\* both threads have returned
HarnessDone == hpPc = "done" /\ hcPc = "done"

\* what the claim says of the state at termination
HarnessFinal ==
  /\ pushedSeq = [j \in 1 .. count |-> j - 1]
  /\ Len(poppedSeq) = count
  /\ head = tail
  /\ checksum = SumBelow(count)

====
